---- MODULE Spec2Model ----
(***************************************************************************)
(* bt-tui daemon (src/src/bt_daemon.py): the IPC server, the command       *)
(* dispatcher, the hcsecd.conf writer and the inquiry output parser.       *)
(*                                                                         *)
(* Text is modelled character by character: a Python str is a tuple of     *)
(* one-character strings, so that `mac in content`, str.split, str.strip   *)
(* and str.count are computed on the characters, as the code computes      *)
(* them.                                                                   *)
(***************************************************************************)
EXTENDS Integers, Sequences, FiniteSets, TLC

(* ------------------------------ bounds --------------------------------- *)

\* Connections the clients open during one run of the daemon.
MaxConns == 2

\* Direct calls of update_hcsecd_conf in one run of the harness SpecConf.
MaxCalls == 2

\* How many lines a text handed to parse_inquiry_output directly has at most.
MaxLines == 2

\* Key presses, button presses and selections in one run of the frontend.
MaxEvents == 3

(* ------------------------------- state --------------------------------- *)

VARIABLES
    pc,          \* main(): the statement it is at ("parse_args", "check_root",
                 \* ..., "accept" at server_socket.accept(), "handle" inside
                 \* handle_client_connection), "exited" after the process
                 \* ended, "test" when the module is only imported by a test
    hci_device,  \* the global adapter name
    backlog,     \* connections the clients opened and accept() has not returned
    nconn,       \* connections opened so far
    conn,        \* the connections: pending, in the handler, or last closed
    store,       \* the file at HCSECD_CONF_PATH
    log,         \* the calls a test made, with their results
    daemon,      \* the daemon process: its effective user, the signals
                 \* cleanup_socket is registered for, server_socket, the file
                 \* at SOCKET_PATH, how the process ended
    tui          \* the BluetoothTUI object: devices, selected_device and the
                 \* lines of the status log

vars == <<pc, hci_device, backlog, nconn, conn, store, log, daemon, tui>>

(* ------------------------- program constants --------------------------- *)

\* server_socket.listen(5)
LISTEN_BACKLOG == 5

\* utils.BUFFER_SIZE
BUFFER_SIZE == 4096

\* `def handle_command(command_data)`, `def scan_devices()`: how many
\* positional arguments each takes.
HANDLE_COMMAND_PARAMS == 1
SCAN_DEVICES_PARAMS == 0

(* ------------------------------ strings -------------------------------- *)

\* Python's `p in s` for two strings.
IsSubstring(p, s) ==
    \E i \in 0..(Len(s) - Len(p)) : SubSeq(s, i + 1, i + Len(p)) = p

\* s.startswith(p)
StartsWith(s, p) == Len(p) <= Len(s) /\ SubSeq(s, 1, Len(p)) = p

\* The characters str.strip() and str.split() treat as whitespace.
WHITESPACE == {" ", "\t", "\n", "\r"}

\* A text between double quotes.
Quoted(s) == <<"\"">> \o s \o <<"\"">>

SCAN == <<"s", "c", "a", "n">>
PAIR == <<"p", "a", "i", "r">>
BOGUS == <<"b", "o", "g", "u", "s">>
\* Mutant: a request without pin is given the empty pin.
DefaultPinEmpty == <<>>

DEFAULT_PIN == <<"0", "0", "0", "0">>
DEFAULT_HCI_DEVICE == <<"u", "b", "t", "0", "h", "c", "i">>
DEFAULT_NAME == <<"U", "n", "k", "n", "o", "w", "n">>
PIN_1234 == <<"1", "2", "3", "4">>

\* Addresses in the canonical XX:XX:XX:XX:XX:XX form.
MacA ==
    <<"A", "A", ":", "B", "B", ":", "C", "C", ":", "D", "D", ":", "E", "E",
      ":", "F", "F">>

MacT ==
    <<"1", "1", ":", "1", "1", ":", "1", "1", ":", "1", "1", ":", "1", "1",
      ":", "1", "1">>

Mac0 ==
    <<"0", "0", ":", "1", "1", ":", "2", "2", ":", "3", "3", ":", "4", "4",
      ":", "5", "5">>

\* Strings a client may send as "mac" that are not canonical addresses: a
\* fragment of an address, and a word of the generated header line.
MacFragment == <<"1", "1">>
MacWord == <<"t", "u", "i">>

(* ------------------------------- JSON ---------------------------------- *)

\* A decoded JSON value: its Python type and its payload (the characters of a
\* str, the fields of a dict).
JStr(s) == [t |-> "str", v |-> s]
JNum == [t |-> "int", v |-> <<"5">>]
JNull == [t |-> "NoneType", v |-> <<"N", "o", "n", "e">>]
JList == [t |-> "list", v |-> <<"[", "]">>]
JObj(fields) == [t |-> "dict", v |-> fields]

\* dict.get(key, default)
Get(d, key, default) == IF key \in DOMAIN d.v THEN d.v[key] ELSE default

\* Python truthiness of a decoded value (`not mac` is ~Truthy(mac)).
Truthy(x) ==
    CASE x.t = "str" -> x.v # <<>>
      [] x.t = "NoneType" -> FALSE
      [] OTHER -> TRUE

\* What an f-string's {x} renders.
Format(x) == x.v

(* ----------------------------- exceptions ------------------------------ *)

\* The exception classes that derive from Exception, among those the code can
\* meet.
EXCEPTIONS ==
    {"OSError", "UnicodeDecodeError", "JSONDecodeError", "AttributeError",
     "TypeError"}

(* ------------------------- the pairing store --------------------------- *)

HEADER_LINE ==
    <<"#", " ", "h", "c", "s", "e", "c", "d", ".", "c", "o", "n", "f", " ",
      "g", "e", "n", "e", "r", "a", "t", "e", "d", " ", "b", "y", " ", "b",
      "t", "-", "t", "u", "i", "\n">>

\* The four literal pieces of the device block of update_hcsecd_conf.
ENTRY_OPEN ==
    <<"\n", "d", "e", "v", "i", "c", "e", " ", "{", "\n", "\t", "b", "d",
      "a", "d", "d", "r", "\t">>

ENTRY_NAME ==
    <<";", "\n", "\t", "n", "a", "m", "e", "\t", "\"">>

ENTRY_KEY_PIN ==
    <<"\"", ";", "\n", "\t", "k", "e", "y", "\t", "n", "o", "k", "e", "y",
      ";", "\n", "\t", "p", "i", "n", "\t", "\"">>

ENTRY_CLOSE ==
    <<"\"", ";", "\n", "}", "\n">>

\* The store tests/test_config.py starts from: one device, 11:11:11:11:11:11.
FixtureConf ==
    <<"#", " ", "D", "e", "f", "a", "u", "l", "t", " ", "h", "c", "s", "e",
      "c", "d", ".", "c", "o", "n", "f", "\n", "d", "e", "v", "i", "c",
      "e", " ", "{", "\n", "\t", "b", "d", "a", "d", "d", "r", " ", "1",
      "1", ":", "1", "1", ":", "1", "1", ":", "1", "1", ":", "1", "1", ":",
      "1", "1", ";", "\n", "\t", "n", "a", "m", "e", " ", "\"", "T", "e",
      "s", "t", "\"", ";", "\n", "}", "\n">>

\* The file at HCSECD_CONF_PATH: whether it exists, and its text.
NoStore == [exists |-> FALSE, content |-> <<>>]
StoreOf(text) == [exists |-> TRUE, content |-> text]

\* The stores a run may start from: no file, an empty file, the test fixture.
InitStores == {NoStore, StoreOf(<<>>), StoreOf(FixtureConf)}

\* Which open() of update_hcsecd_conf raises: none, the creating open(.., "w"),
\* the reading open(.., "r") or the appending open(.., "a").
IOFaults == {"none", "create", "read", "append"}

\* Mutant: the block is written with the default name, whatever name is given.
EntryDefaultName(mac, name, pin) ==
    ENTRY_OPEN \o mac \o ENTRY_NAME \o <<"U", "n", "k", "n", "o", "w", "n">>
    \o ENTRY_KEY_PIN \o pin \o ENTRY_CLOSE

\* The f-string of the new device block.
Entry(mac, name, pin) ==
    ENTRY_OPEN \o mac \o ENTRY_NAME \o name \o ENTRY_KEY_PIN \o pin \o ENTRY_CLOSE

\* Mutant: the address is compared with the whole text of the store.
AlreadyPresentWholeText(mac, content) == mac = content

\* Mutant: only an address line written as this function writes it, with a tab,
\* counts.
AlreadyPresentAsWritten(mac, content) ==
    IsSubstring(<<"b", "d", "a", "d", "d", "r", "\t">> \o mac \o <<";">>, content)

\* `if mac in content`: a substring test on the whole text of the store.
AlreadyPresent(mac, content) == IsSubstring(mac, content)

\* Mutant: a missing store is created empty, without the header line.
CreatedEmpty(st) == IF st.exists THEN st ELSE [exists |-> TRUE, content |-> <<>>]

\* The store after `if not os.path.exists(conf_path)`: created with the header
\* line when it was missing.
Created(st) == IF st.exists THEN st ELSE StoreOf(HEADER_LINE)

\* Mutant: the block is written with open(conf_path, "w"), which empties the
\* file first.
UpdateTryTruncating(st, mac, pin, name, io) ==
    IF ~st.exists /\ io = "create"
    THEN [raised |-> "OSError", ok |-> FALSE, store |-> st]
    ELSE IF io = "read"
    THEN [raised |-> "OSError", ok |-> FALSE, store |-> Created(st)]
    ELSE IF mac.t # "str"
    THEN [raised |-> "TypeError", ok |-> FALSE, store |-> Created(st)]
    ELSE IF AlreadyPresent(mac.v, Created(st).content)
    THEN [raised |-> "none", ok |-> FALSE, store |-> Created(st)]
    ELSE IF io = "append"
    THEN [raised |-> "OSError", ok |-> FALSE, store |-> Created(st)]
    ELSE [raised |-> "none", ok |-> TRUE,
          store |-> [exists |-> TRUE,
                     content |-> Entry(Format(mac), Format(name), Format(pin))]]

\* The try block of update_hcsecd_conf: the exception that leaves it ("none"
\* when it runs to its return), the value it returns and the store it leaves.
\* A failing open raises OSError; `mac in content` raises TypeError for a mac
\* that is no str.
UpdateTry(st, mac, pin, name, io) ==
    IF ~st.exists /\ io = "create"
    THEN [raised |-> "OSError", ok |-> FALSE, store |-> st]
    ELSE IF io = "read"
    THEN [raised |-> "OSError", ok |-> FALSE, store |-> Created(st)]
    ELSE IF mac.t # "str"
    THEN [raised |-> "TypeError", ok |-> FALSE, store |-> Created(st)]
    ELSE IF AlreadyPresent(mac.v, Created(st).content)
    THEN [raised |-> "none", ok |-> FALSE, store |-> Created(st)]
    ELSE IF io = "append"
    THEN [raised |-> "OSError", ok |-> FALSE, store |-> Created(st)]
    ELSE [raised |-> "none", ok |-> TRUE,
          store |-> StoreOf(Created(st).content
                            \o Entry(Format(mac), Format(name), Format(pin)))]

\* Mutant: the function has no except clause.
UpdateCatchesNothing(raised) == FALSE

\* `except Exception as e` of update_hcsecd_conf: what it catches.
UpdateCatches(raised) == raised \in EXCEPTIONS

\* update_hcsecd_conf(conf_path, mac, pin, name): the exception it raises
\* ("none" when it returns), the value it returns and the store it leaves. A
\* caught exception is logged and turned into False.
update_hcsecd_conf(st, mac, pin, name, io) ==
    LET r == UpdateTry(st, mac, pin, name, io)
    IN  IF UpdateCatches(r.raised) THEN [r EXCEPT !.raised = "none", !.ok = FALSE]
        ELSE r

\* The positions of the store text where a device block's address line names
\* `mac`: "bdaddr", one blank, the address, ";".
BdaddrAt(content, mac, i) ==
    /\ i + 6 + Len(mac) + 1 <= Len(content)
    /\ SubSeq(content, i, i + 5) = <<"b", "d", "a", "d", "d", "r">>
    /\ content[i + 6] \in {" ", "\t"}
    /\ SubSeq(content, i + 7, i + 6 + Len(mac)) = mac
    /\ content[i + 7 + Len(mac)] = ";"

\* How many device blocks of the store are keyed by `mac`.
BlockCount(content, mac) ==
    Cardinality({i \in 1..Len(content) : BdaddrAt(content, mac, i)})

(* ----------------------- external collaborators ------------------------ *)

\* How `service hcsecd restart` ends: exit code 0, another exit code, or
\* subprocess.run raising.
ReloadRuns == {"exit0", "nonzero", "raises"}

\* restart_hcsecd_service(): True only for exit code 0.
restart_hcsecd_service(run) == run = "exit0"

(* ------------------------ inquiry output parser ------------------------ *)

Min(S) == CHOOSE x \in S : \A y \in S : x <= y
Max(S) == CHOOSE x \in S : \A y \in S : y <= x

\* str.strip(): the text between its first and its last non-blank character.
Strip(s) ==
    LET solid == {i \in 1..Len(s) : s[i] \notin WHITESPACE}
    IN  IF solid = {} THEN <<>> ELSE SubSeq(s, Min(solid), Max(solid))

\* str.split('\n'): the pieces between the newlines, empty ones kept.
RECURSIVE SplitLines(_)
SplitLines(s) ==
    LET nl == {i \in 1..Len(s) : s[i] = "\n"}
    IN  IF nl = {} THEN <<s>>
        ELSE <<SubSeq(s, 1, Min(nl) - 1)>>
             \o SplitLines(SubSeq(s, Min(nl) + 1, Len(s)))

\* str.split(): the maximal runs of non-blank characters.
RECURSIVE SplitWords(_)
SplitWords(s) ==
    LET solid == {i \in 1..Len(s) : s[i] \notin WHITESPACE}
    IN  IF solid = {} THEN <<>>
        ELSE LET from == Min(solid)
                 blank == {i \in from..Len(s) : s[i] \in WHITESPACE}
                 to == IF blank = {} THEN Len(s) ELSE Min(blank) - 1
             IN  <<SubSeq(s, from, to)>> \o SplitWords(SubSeq(s, to + 1, Len(s)))

\* str.count(ch)
Count(s, ch) == Cardinality({i \in 1..Len(s) : s[i] = ch})

INQUIRY_HEADER ==
    <<"I", "n", "q", "u", "i", "r", "y", " ", "r", "e", "s", "u", "l", "t">>

BD_ADDR ==
    <<"B", "D", "_", "A", "D", "D", "R">>

\* Mutant: the display name is taken from the address found.
DeviceNamedByMac(mac) ==
    [mac |-> mac, name |-> mac, rssi |-> -99, paired |-> FALSE,
     connected |-> FALSE]

\* The device dictionary built for one address.
Device(mac) ==
    [mac |-> mac, name |-> DEFAULT_NAME, rssi |-> -99,
     paired |-> FALSE, connected |-> FALSE]

\* Mutant: only blank lines are skipped.
SkippedLineBlankOnly(line) == Strip(line) = <<>>

\* `if not line.strip() or line.startswith('Inquiry result'): continue`
SkippedLine(line) == Strip(line) = <<>> \/ StartsWith(line, INQUIRY_HEADER)

\* `if 'BD_ADDR' in line or ':' in line`
CandidateLine(line) == IsSubstring(BD_ADDR, line) \/ IsSubstring(<<":">>, line)

\* Mutant: the inner loop does not break, the last part with five colons wins.
AddressPartsLast(line) ==
    LET parts == SelectSeq(SplitWords(line), LAMBDA part : Count(part, ":") = 5)
    IN  IF parts = <<>> THEN <<>> ELSE <<parts[Len(parts)]>>

\* The inner loop: the parts of the line with exactly five colons, in order;
\* the loop breaks at the first one.
AddressParts(line) ==
    SelectSeq(SplitWords(line), LAMBDA part : Count(part, ":") = 5)

\* The devices one line adds to the list.
LineDevices(line) ==
    IF SkippedLine(line) \/ ~CandidateLine(line) \/ AddressParts(line) = <<>>
    THEN <<>>
    ELSE <<Device(Head(AddressParts(line)))>>

RECURSIVE ParseLines(_)
ParseLines(lines) ==
    IF lines = <<>> THEN <<>>
    ELSE LineDevices(Head(lines)) \o ParseLines(Tail(lines))

\* parse_inquiry_output(stdout_text)
parse_inquiry_output(stdout_text) == ParseLines(SplitLines(Strip(stdout_text)))

\* Texts the inquiry command may print.
OutSimple ==
    <<"I", "n", "q", "u", "i", "r", "y", " ", "r", "e", "s", "u", "l", "t",
      ",", " ", "n", "u", "m", "_", "r", "e", "s", "p", "o", "n", "s", "e",
      "s", "=", "1", "\n", "0", "0", ":", "1", "1", ":", "2", "2", ":",
      "3", "3", ":", "4", "4", ":", "5", "5">>

OutTwoOnLine ==
    <<"B", "D", "_", "A", "D", "D", "R", ":", " ", "A", "A", ":", "B", "B",
      ":", "C", "C", ":", "D", "D", ":", "E", "E", ":", "F", "F", " ", "1",
      "1", ":", "1", "1", ":", "1", "1", ":", "1", "1", ":", "1", "1", ":",
      "1", "1", "\n", "\n", "1", "1", ":", "1", "1", ":", "1", "1", ":",
      "1", "1", ":", "1", "1", ":", "1", "1", "\n">>

OutGarbage ==
    <<"N", "o", " ", "d", "e", "v", "i", "c", "e", "s", " ", "f", "o", "u",
      "n", "d", "\n", "s", "t", "a", "t", "u", "s", ":", " ", "o", "k">>

InquiryOutputs == {<<>>, OutSimple, OutTwoOnLine, OutGarbage}

(* ------------------------------ responses ------------------------------ *)

\* A message: a literal text followed by the rendering of a value (empty for
\* the fixed messages).
Msg(text, arg) == [text |-> text, arg |-> arg]

Reply(status, message) == [status |-> status, message |-> message]
\* Mutant: a failed scan is reported as a warning.
ScanFailureWarning(message) ==
    [status |-> "warning", message |-> message, data |-> <<>>]

ScanFailure(message) == [status |-> "error", message |-> message, data |-> <<>>]
ScanSuccess(devices) == [status |-> "success", data |-> devices]

\* The place of a response that was never built.
NoResponse == [status |-> "(none)"]

STATUSES == {"success", "error", "warning"}

\* A response object as the protocol defines it: a status field with one of
\* the three values.
WellFormed(r) == "status" \in DOMAIN r /\ r.status \in STATUSES

\* One entry of the log of invocations: the function, its main argument and
\* the value it returned ("True", "False", or "" where the value is the
\* response).
Call(fn, arg, ret) == [fn |-> fn, arg |-> arg, ret |-> ret]

\* str(b) of a bool.
Bool(b) == IF b THEN "True" ELSE "False"

(* --------------------------- device discovery -------------------------- *)

\* How subprocess.run(['hccontrol', '-n', hci_device, 'inquiry']) ends, and
\* what the command printed.
ScanRuns ==
    {[how |-> "exit0", stdout |-> o] : o \in InquiryOutputs}
    \cup {[how |-> h, stdout |-> <<>>] :
            h \in {"nonzero", "TimeoutExpired", "FileNotFoundError", "Exception"}}

\* str(e) of the exception of the catch-all branch.
OTHER_ERROR == <<"e">>

\* Mutant: the exit code of the inquiry is not looked at.
scan_devicesUnchecked(run) ==
    IF run.how \in {"exit0", "nonzero"}
    THEN ScanSuccess(parse_inquiry_output(run.stdout))
    ELSE IF run.how = "TimeoutExpired" THEN ScanFailure(Msg("Scan timeout", <<>>))
    ELSE IF run.how = "FileNotFoundError"
         THEN ScanFailure(Msg("hccontrol not found", <<>>))
    ELSE ScanFailure(Msg("", OTHER_ERROR))

\* Mutant: only the first device parsed is returned.
scan_devicesFirstOnly(run) ==
    IF run.how = "exit0"
    THEN ScanSuccess(LET devices == parse_inquiry_output(run.stdout)
                     IN  IF devices = <<>> THEN <<>> ELSE <<Head(devices)>>)
    ELSE IF run.how = "nonzero"
         THEN ScanFailure(Msg("Failed to scan devices", <<>>))
    ELSE IF run.how = "TimeoutExpired" THEN ScanFailure(Msg("Scan timeout", <<>>))
    ELSE IF run.how = "FileNotFoundError"
         THEN ScanFailure(Msg("hccontrol not found", <<>>))
    ELSE ScanFailure(Msg("", OTHER_ERROR))

\* scan_devices()
scan_devices(run) ==
    IF run.how = "exit0" THEN ScanSuccess(parse_inquiry_output(run.stdout))
    ELSE IF run.how = "nonzero"
         THEN ScanFailure(Msg("Failed to scan devices", <<>>))
    ELSE IF run.how = "TimeoutExpired" THEN ScanFailure(Msg("Scan timeout", <<>>))
    ELSE IF run.how = "FileNotFoundError"
         THEN ScanFailure(Msg("hccontrol not found", <<>>))
    ELSE ScanFailure(Msg("", OTHER_ERROR))

\* Mutant: an inquiry that timed out is run once more.
ScanCallsRetry(dev, run) ==
    <<Call("scan_devices", dev, ""), Call("subprocess.run", dev, run.how)>>
    \o (IF run.how = "TimeoutExpired"
        THEN <<Call("subprocess.run", dev, run.how)>>
        ELSE <<>>)
    \o (IF run.how = "exit0"
        THEN <<Call("parse_inquiry_output", run.stdout, "")>>
        ELSE <<>>)

\* Mutant: the inquiry runs on the default adapter, whatever --device said.
ScanCallsDefaultDevice(dev, run) ==
    <<Call("scan_devices", DEFAULT_HCI_DEVICE, ""),
      Call("subprocess.run", DEFAULT_HCI_DEVICE, run.how)>>
    \o (IF run.how = "exit0"
        THEN <<Call("parse_inquiry_output", run.stdout, "")>>
        ELSE <<>>)

\* What scan_devices() calls, in order: the inquiry command on the adapter,
\* logged with how it ended, and the parser on what it printed when it exited
\* with code 0.
ScanCalls(dev, run) ==
    <<Call("scan_devices", dev, ""), Call("subprocess.run", dev, run.how)>>
    \o (IF run.how = "exit0"
        THEN <<Call("parse_inquiry_output", run.stdout, "")>>
        ELSE <<>>)

(* ------------------------------ dispatcher ----------------------------- *)

\* What one call of handle_command does: the exception it raises ("none" when
\* it returns), the response it returns, the store it leaves and the
\* functions it called, in order.
Outcome(raised, response, st, calls) ==
    [raised |-> raised, response |-> response, store |-> st, calls |-> calls]

\* Mutant: `action in "scan"`, a substring test, which the empty action of a
\* request without one passes.
IsWithin(x, word) == x.t = "str" /\ IsSubstring(x.v, word)

\* `action == "scan"`, `action == "pair"`: equality with a str.
Is(x, word) == x.t = "str" /\ x.v = word

\* Mutant: the address check is missing.
MacMissingUnchecked(mac) == FALSE

\* Mutant: the dispatcher remembers the addresses it was asked to pair and
\* treats one it has seen as missing.
MacMissingOrHandled(mac) ==
    \/ ~Truthy(mac)
    \/ \E k \in 1..Len(log) :
          /\ log[k].request.t = "dict"
          /\ "mac" \in DOMAIN log[k].request.v
          /\ log[k].request.v.mac = mac

\* `if not mac`
MacMissing(mac) == ~Truthy(mac)

\* Mutant: a failed restart puts the store back as it was.
PairDeviceRollback(mac, pin, st, env) ==
    LET upd == update_hcsecd_conf(st, mac, pin, JStr(DEFAULT_NAME), env.io)
        updated == <<Call("update_hcsecd_conf", Format(mac), Bool(upd.ok))>>
        reloaded ==
            updated
            \o <<Call("restart_hcsecd_service", <<>>,
                      Bool(restart_hcsecd_service(env.reload)))>>
    IN  IF upd.ok
        THEN IF restart_hcsecd_service(env.reload)
             THEN Outcome("none", Reply("success", Msg("Paired with ", Format(mac))),
                          upd.store, reloaded)
             ELSE Outcome("none",
                          Reply("warning",
                                Msg("Config updated but service restart failed", <<>>)),
                          st, reloaded)
        ELSE Outcome("none",
                     Reply("error",
                           Msg("Failed to update configuration (or already paired)",
                               <<>>)),
                     upd.store, updated)

\* Mutant: the service is restarted whatever update_hcsecd_conf returned.
PairDeviceRestartAlways(mac, pin, st, env) ==
    LET upd == update_hcsecd_conf(st, mac, pin, JStr(DEFAULT_NAME), env.io)
        reloaded ==
            <<Call("update_hcsecd_conf", Format(mac), Bool(upd.ok)),
              Call("restart_hcsecd_service", <<>>,
                   Bool(restart_hcsecd_service(env.reload)))>>
    IN  IF ~upd.ok
        THEN Outcome("none",
                     Reply("error",
                           Msg("Failed to update configuration (or already paired)",
                               <<>>)),
                     upd.store, reloaded)
        ELSE IF restart_hcsecd_service(env.reload)
        THEN Outcome("none", Reply("success", Msg("Paired with ", Format(mac))),
                     upd.store, reloaded)
        ELSE Outcome("none",
                     Reply("warning",
                           Msg("Config updated but service restart failed", <<>>)),
                     upd.store, reloaded)

\* The pair branch after the address check.
PairDevice(mac, pin, st, env) ==
    LET upd == update_hcsecd_conf(st, mac, pin, JStr(DEFAULT_NAME), env.io)
        updated == <<Call("update_hcsecd_conf", Format(mac), Bool(upd.ok))>>
        reloaded ==
            updated
            \o <<Call("restart_hcsecd_service", <<>>,
                      Bool(restart_hcsecd_service(env.reload)))>>
    IN  IF upd.raised # "none"
        THEN \* not caught in update_hcsecd_conf: it leaves handle_command too
             Outcome(upd.raised, NoResponse, upd.store,
                     <<Call("update_hcsecd_conf", Format(mac), upd.raised)>>)
        ELSE IF upd.ok
        THEN IF restart_hcsecd_service(env.reload)
             THEN Outcome("none", Reply("success", Msg("Paired with ", Format(mac))),
                          upd.store, reloaded)
             ELSE Outcome("none",
                          Reply("warning",
                                Msg("Config updated but service restart failed", <<>>)),
                          upd.store, reloaded)
        ELSE Outcome("none",
                     Reply("error",
                           Msg("Failed to update configuration (or already paired)",
                               <<>>)),
                     upd.store, updated)

\* handle_command(command_data). env holds what the environment decides during
\* the call: the adapter name, how the inquiry ends, which open() fails, how
\* the service restart ends.
handle_command(command_data, st, env) ==
    IF command_data.t # "dict"
    THEN \* command_data.get: 'list' object has no attribute 'get'
         Outcome("AttributeError", NoResponse, st, <<>>)
    ELSE LET action == Get(command_data, "action", JStr(<<>>))
             mac == Get(command_data, "mac", JStr(<<>>))
             pin == Get(command_data, "pin", JStr(DEFAULT_PIN))
         IN  IF Is(action, SCAN)
             THEN Outcome("none", scan_devices(env.scan), st,
                          ScanCalls(env.dev, env.scan))
             ELSE IF Is(action, PAIR)
             THEN IF MacMissing(mac)
                  THEN Outcome("none",
                               Reply("error", Msg("No MAC address provided", <<>>)),
                               st, <<>>)
                  ELSE PairDevice(mac, pin, st, env)
             ELSE Outcome("none",
                          Reply("error", Msg("Unknown action: ", Format(action))),
                          st, <<>>)

(* ------------------------------ the wire ------------------------------- *)

\* Text that json.loads rejects.
Malformed == [t |-> "malformed", v |-> <<>>]

\* A dict without fields.
NoFields == [k \in {} |-> JNull]

\* What a client may send as "mac" and as "pin".
MacValues ==
    {JStr(<<>>), JNull, JNum, JStr(MacA), JStr(MacT), JStr(MacFragment),
     JStr(MacWord)}
PinValues == {JStr(PIN_1234), JStr(MacA)}

\* The JSON documents a client may send.
Documents ==
    {JList, JObj(NoFields), JObj([action |-> JStr(SCAN)]),
     JObj([action |-> JStr(BOGUS)]), JObj([action |-> JNum]),
     JObj([action |-> JStr(PAIR)])}
    \cup {JObj([action |-> JStr(PAIR), mac |-> m]) : m \in MacValues}
    \cup {JObj([action |-> JStr(PAIR), mac |-> m, pin |-> p]) :
            m \in MacValues, p \in PinValues}

\* What recv(BUFFER_SIZE) may return: no bytes (the peer closed), bytes that
\* are not UTF-8, or the UTF-8 encoding of a text: a JSON document or not.
Payloads ==
    {[enc |-> "empty", doc |-> Malformed], [enc |-> "bad_utf8", doc |-> Malformed],
     [enc |-> "utf8", doc |-> Malformed]}
    \cup {[enc |-> "utf8", doc |-> d] : d \in Documents}

NoData == [enc |-> "(unread)", doc |-> Malformed]

\* The length of a dict key in bytes.
KeyBytes == [action |-> 6, mac |-> 3, pin |-> 3]

\* len(json.dumps(x)): the bytes of a JSON value as the client writes it, with
\* ", " between the items and ": " after a key.
RECURSIVE DumpsLen(_)
RECURSIVE ItemsLen(_, _)
ItemsLen(d, keys) ==
    IF keys = {} THEN 0
    ELSE LET k == CHOOSE key \in keys : TRUE
             rest == keys \ {k}
         IN  Len(Quoted(<<>>)) + KeyBytes[k] + Len(<<":", " ">>) + DumpsLen(d[k])
             + (IF rest = {} THEN 0 ELSE Len(<<",", " ">>) + ItemsLen(d, rest))
DumpsLen(x) ==
    IF x.t = "str" THEN Len(Quoted(x.v))
    ELSE IF x.t = "NoneType" THEN Len(<<"n", "u", "l", "l">>)
    ELSE IF x.t = "dict" THEN Len(<<"{", "}">>) + ItemsLen(x.v, DOMAIN x.v)
    ELSE Len(x.v)

\* The bytes of the body of a message: a JSON document as json.dumps writes
\* it, or one byte that is no JSON (and, for "bad_utf8", no UTF-8 either).
BodyLen(body) ==
    IF body.enc = "empty" THEN 0
    ELSE IF body.enc = "utf8" /\ body.doc.t # "malformed" THEN DumpsLen(body.doc)
    ELSE 1

\* What a client writes to the socket: `lead` bytes of white space, the body,
\* `trail` bytes of white space.
Message(lead, body, trail) == [lead |-> lead, body |-> body, trail |-> trail]

Size(message) == message.lead + BodyLen(message.body) + message.trail

\* The request a client sends as json.dumps writes it, and requests that do
\* not fit the buffer: with white space behind the document, with the document
\* ending where the buffer ends, with the document one byte too long, and with
\* the document wholly behind the buffer.
ScanRequest == [enc |-> "utf8", doc |-> JObj([action |-> JStr(SCAN)])]
Messages ==
    {Message(0, body, 0) : body \in Payloads}
    \cup {Message(0, ScanRequest, BUFFER_SIZE),
          Message(BUFFER_SIZE - BodyLen(ScanRequest), ScanRequest, 1),
          Message(BUFFER_SIZE - BodyLen(ScanRequest) + 1, ScanRequest, 0),
          Message(BUFFER_SIZE, ScanRequest, 0)}

\* The first n bytes of a message, as data.decode and json.loads take them:
\* nothing, white space alone or a document cut short (no JSON), or the body
\* with white space around it.
FirstBytes(message, n) ==
    IF n = 0 THEN [enc |-> "empty", doc |-> Malformed]
    ELSE IF n < message.lead + BodyLen(message.body)
    THEN [enc |-> "utf8", doc |-> Malformed]
    ELSE message.body

\* One call of recv: the size asked for and the number of bytes it returned.
Read(bufsize, got) == [bufsize |-> bufsize, got |-> got]

\* Mutant: recv is called until the peer has nothing more to send.
RecvCallsUntilEnd(message) ==
    IF Size(message) <= BUFFER_SIZE
    THEN <<Read(BUFFER_SIZE, Size(message))>>
    ELSE <<Read(BUFFER_SIZE, BUFFER_SIZE),
           Read(BUFFER_SIZE, Size(message) - BUFFER_SIZE)>>

\* `data = client_socket.recv(BUFFER_SIZE)`: the calls of recv the handler
\* makes on a connection whose client wrote `message`.
RecvCalls(message) ==
    <<Read(BUFFER_SIZE, Min({Size(message), BUFFER_SIZE}))>>

\* The bytes a sequence of reads returned.
RECURSIVE Got(_)
Got(reads) == IF reads = <<>> THEN 0 ELSE Head(reads).got + Got(Tail(reads))

\* The response of the `except json.JSONDecodeError` branch.
InvalidJson == Reply("error", Msg("Invalid JSON format", <<>>))

\* Adapter names --device may give: argparse takes any string, the name of
\* an adapter or not.
HciDevices ==
    {DEFAULT_HCI_DEVICE, <<"u", "b", "t", "1", "h", "c", "i">>,
     <<"u", "b", "t", "0">>}

(* ----------------------------- the process ---------------------------- *)

\* The effective user id of root, and the users that may start the daemon.
ROOT_EUID == 0
Euids == {ROOT_EUID, 1001}

SIGNALS == {"SIGINT", "SIGTERM"}

\* The daemon process before main() has done anything: no handler is
\* registered, there is no server socket; the file at SOCKET_PATH is absent
\* or left over from a previous run.
Started(euid, socket_file) ==
    [euid |-> euid, handlers |-> {}, server_socket |-> "none",
     socket_file |-> socket_file, exit_status |-> "none", ended_by |-> "none"]

\* The module imported by a test: main() is not run.
IMPORTED == Started(ROOT_EUID, "absent")

\* The daemon in its accept loop: started by root, both handlers registered,
\* the socket bound to the file and listening.
SERVING ==
    [euid |-> ROOT_EUID, handlers |-> SIGNALS, server_socket |-> "listening",
     socket_file |-> "bound", exit_status |-> "none", ended_by |-> "none"]

\* Mutant: cleanup_socket leaves the socket file where it is.
cleanup_socketExitOnly(d) == [d EXCEPT !.exit_status = "0"]

\* cleanup_socket(): `if os.path.exists(SOCKET_PATH): os.unlink(SOCKET_PATH)`,
\* then sys.exit(0).
cleanup_socket(d) == [d EXCEPT !.socket_file = "absent", !.exit_status = "0"]

\* The finally block of main(): server_socket.close(), cleanup_socket().
Finally(d) == cleanup_socket([d EXCEPT !.server_socket = "closed"])

\* Mutant: check_root lets every user pass.
NotRootIgnored(euid) == FALSE

\* check_root(): `if os.geteuid() != 0`
NotRoot(euid) == euid # ROOT_EUID

(* ------------------------------ the frontend --------------------------- *)

\* BluetoothTUI.__init__: no devices, nothing selected, an empty status log.
NEW_APP == [devices |-> <<>>, selected_device |-> JNull, status_log |-> <<>>]

(* ----------------------------- connections ---------------------------- *)

\* A connection a client has just opened.
NewConn ==
    [phase |-> "pending", message |-> Message(0, NoData, 0), reads |-> <<>>,
     data |-> NoData, request |-> Malformed,
     response |-> NoResponse, wrote |-> <<>>, sent |-> <<>>, calls |-> <<>>,
     fault |-> "none"]

\* The phases in which handle_client_connection is working on a connection:
\* before recv, before handle_command, before sendall, before close.
ActivePhases == {"accepted", "dispatch", "send", "closing"}

Active == {c \in DOMAIN conn : conn[c].phase \in ActivePhases}

Init ==
    /\ pc = "accept"
    /\ hci_device \in HciDevices
    /\ backlog = <<>>
    /\ nconn = 0
    /\ conn = [c \in {} |-> NewConn]
    /\ store \in InitStores
    /\ log = <<>>
    /\ daemon = SERVING
    /\ tui = NEW_APP

(* ------------------------------ the server ----------------------------- *)

\* A client connects to the socket: the connection waits in the listen queue.
Connect ==
    /\ pc \in {"accept", "handle"}
    /\ nconn < MaxConns
    /\ Len(backlog) < LISTEN_BACKLOG
    /\ nconn' = nconn + 1
    /\ backlog' = Append(backlog, nconn + 1)
    /\ conn' = [c \in DOMAIN conn \cup {nconn + 1} |->
                  IF c = nconn + 1 THEN NewConn ELSE conn[c]]
    /\ UNCHANGED <<pc, hci_device, store, log, daemon, tui>>

\* Mutant: the handler runs in a thread of its own and main() goes straight
\* back to accept().
AfterAcceptThreaded == "accept"

\* Where main() is after accept() has returned a connection: in the call of
\* handle_client_connection, which it waits for.
AfterAccept == "handle"

\* `client_socket, _ = server_socket.accept()`: the blocked call returns the
\* oldest waiting connection; the previous client_socket is released.
Accept ==
    /\ pc = "accept"
    /\ backlog # <<>>
    /\ backlog' = Tail(backlog)
    /\ conn' = [c \in {d \in DOMAIN conn : conn[d].phase # "closed"} |->
                  IF c = Head(backlog) THEN [conn[c] EXCEPT !.phase = "accepted"]
                  ELSE conn[c]]
    /\ pc' = AfterAccept
    /\ UNCHANGED <<hci_device, nconn, store, log, daemon, tui>>

\* Mutant: after an empty read the handler returns without the finally block.
ReceivedLeaking(c, data) ==
    IF data.enc = "empty"
    THEN [c EXCEPT !.data = data, !.phase = "returned"]
    ELSE IF data.enc = "bad_utf8"
    THEN [c EXCEPT !.data = data, !.phase = "closing",
                   !.fault = "UnicodeDecodeError"]
    ELSE IF data.doc.t = "malformed"
    THEN [c EXCEPT !.data = data, !.phase = "send", !.response = InvalidJson]
    ELSE [c EXCEPT !.data = data, !.phase = "dispatch", !.request = data.doc]

\* Mutant: the `if not data` check is missing, so the empty text goes to
\* json.loads, which rejects it.
ReceivedUnchecked(c, data) ==
    IF data.enc = "bad_utf8"
    THEN [c EXCEPT !.data = data, !.phase = "closing",
                   !.fault = "UnicodeDecodeError"]
    ELSE IF data.enc = "empty" \/ data.doc.t = "malformed"
    THEN [c EXCEPT !.data = data, !.phase = "send", !.response = InvalidJson]
    ELSE [c EXCEPT !.data = data, !.phase = "dispatch", !.request = data.doc]

\* From recv to the parsed request: what the handler does with the bytes read.
\* No bytes: return. Bytes that are no UTF-8: data.decode raises. Text that is
\* no JSON: the "Invalid JSON format" response is to be sent. Otherwise the
\* request goes to handle_command.
Received(c, data) ==
    IF data.enc = "empty"
    THEN [c EXCEPT !.data = data, !.phase = "closing"]
    ELSE IF data.enc = "bad_utf8"
    THEN [c EXCEPT !.data = data, !.phase = "closing",
                   !.fault = "UnicodeDecodeError"]
    ELSE IF data.doc.t = "malformed"
    THEN [c EXCEPT !.data = data, !.phase = "send", !.response = InvalidJson]
    ELSE [c EXCEPT !.data = data, !.phase = "dispatch", !.request = data.doc]

\* client_socket.recv(BUFFER_SIZE) returns what the client wrote, as far as
\* it fits, or raises (a reset connection).
Recv(c) ==
    /\ pc # "exited"
    /\ conn[c].phase = "accepted"
    /\ \/ \E message \in Messages :
            LET reads == RecvCalls(message)
            IN  conn' = [conn EXCEPT
                           ![c] = Received([@ EXCEPT !.message = message,
                                                     !.reads = reads],
                                           FirstBytes(message, Got(reads)))]
       \/ conn' = [conn EXCEPT ![c].phase = "closing", ![c].fault = "OSError",
                               ![c].reads = <<Read(BUFFER_SIZE, 0)>>]
    /\ UNCHANGED <<pc, hci_device, backlog, nconn, store, log, daemon, tui>>

\* The connection after handle_command has returned or raised.
Dispatched(c, out) ==
    IF out.raised # "none"
    THEN [c EXCEPT !.phase = "closing", !.fault = out.raised,
                   !.calls = <<Call("handle_command", <<>>, "")>> \o out.calls]
    ELSE [c EXCEPT !.phase = "send", !.response = out.response,
                   !.calls = <<Call("handle_command", <<>>, "")>> \o out.calls]

\* What the environment decides during one call of handle_command: the only
\* choices listed are those the call consults (a scan runs the inquiry, a pair
\* with an address opens the store and may restart the service).
IDLE_SCAN == [how |-> "exit0", stdout |-> <<>>]
IDLE_SCAN_ENV == [io |-> "none", reload |-> "exit0", scan |-> IDLE_SCAN]
Environments(request) ==
    IF request.t = "dict" /\ Is(Get(request, "action", JStr(<<>>)), SCAN)
    THEN {[io |-> "none", reload |-> "exit0", scan |-> s] : s \in ScanRuns}
    ELSE IF request.t = "dict" /\ Is(Get(request, "action", JStr(<<>>)), PAIR)
    THEN {[io |-> io, reload |-> r, scan |-> IDLE_SCAN] :
            io \in IOFaults, r \in ReloadRuns}
    ELSE {[io |-> "none", reload |-> "exit0", scan |-> IDLE_SCAN]}

\* `response = handle_command(request)`
Dispatch(c) ==
    /\ pc # "exited"
    /\ conn[c].phase = "dispatch"
    /\ \E e \in Environments(conn[c].request) :
         LET env == [dev |-> hci_device, io |-> e.io, reload |-> e.reload,
                     scan |-> e.scan]
             out == handle_command(conn[c].request, store, env)
         IN  /\ conn' = [conn EXCEPT ![c] = Dispatched(@, out)]
             /\ store' = out.store
    /\ UNCHANGED <<pc, hci_device, backlog, nconn, log, daemon, tui>>

\* Mutant: a failed sendall is tried once more.
SendRetry(c) ==
    /\ pc # "exited"
    /\ conn[c].phase = "send"
    /\ \/ conn' = [conn EXCEPT ![c].phase = "closing",
                               ![c].wrote = Append(@, conn[c].response),
                               ![c].sent = Append(@, conn[c].response)]
       \/ conn' = [conn EXCEPT ![c].phase = "closing",
                               ![c].wrote = <<conn[c].response, conn[c].response>>,
                               ![c].sent = Append(@, conn[c].response)]
    /\ UNCHANGED <<pc, hci_device, backlog, nconn, store, log, daemon, tui>>

\* client_socket.sendall(json.dumps(response).encode('utf-8')): the handler
\* writes the response; it reaches the client, or sendall raises (the client
\* is gone).
Send(c) ==
    /\ pc # "exited"
    /\ conn[c].phase = "send"
    /\ \/ conn' = [conn EXCEPT ![c].phase = "closing",
                               ![c].wrote = Append(@, conn[c].response),
                               ![c].sent = Append(@, conn[c].response)]
       \/ conn' = [conn EXCEPT ![c].phase = "closing",
                               ![c].wrote = Append(@, conn[c].response),
                               ![c].fault = "OSError"]
    /\ UNCHANGED <<pc, hci_device, backlog, nconn, store, log, daemon, tui>>

\* Mutant: the handler catches only `OSError`.
EscapesOSErrorOnly(fault) == fault \notin {"none", "OSError"}

\* `except Exception as e`: whether what the handler met leaves it uncaught.
Escapes(fault) == fault # "none" /\ fault \notin EXCEPTIONS

\* The end of handle_client_connection: the finally block closes the socket;
\* a caught exception was logged and the call returns to the accept loop, an
\* uncaught one leaves the loop through main()'s `except Exception` and
\* `finally`, which end the process.
Close(c) ==
    /\ pc # "exited"
    /\ conn[c].phase = "closing"
    /\ conn' = [conn EXCEPT ![c].phase = "closed"]
    /\ pc' = IF Escapes(conn[c].fault) THEN "exited" ELSE "accept"
    /\ daemon' = IF Escapes(conn[c].fault)
                 THEN Finally([daemon EXCEPT !.ended_by = "Exception"])
                 ELSE daemon
    /\ UNCHANGED <<hci_device, backlog, nconn, store, log, tui>>

Next ==
    \/ Connect
    \/ Accept
    \/ \E c \in DOMAIN conn : Recv(c)
    \/ \E c \in DOMAIN conn : Dispatch(c)
    \/ \E c \in DOMAIN conn : Send(c)
    \/ \E c \in DOMAIN conn : Close(c)

Spec == Init /\ [][Next]_vars

\* The server with what makes its handler go on: recv returns (the client
\* sends data or closes, or the connection breaks), handle_command returns or
\* raises (the external commands end; the inquiry has a timeout), sendall
\* returns or raises, and the finally block runs. The daemon runs with the
\* default adapter and starts without a store.
InitLive ==
    /\ pc = "accept"
    /\ hci_device = DEFAULT_HCI_DEVICE
    /\ backlog = <<>>
    /\ nconn = 0
    /\ conn = [c \in {} |-> NewConn]
    /\ store = NoStore
    /\ log = <<>>
    /\ daemon = SERVING
    /\ tui = NEW_APP

SpecLive ==
    /\ InitLive
    /\ [][Next]_vars
    /\ WF_vars(\E c \in DOMAIN conn : Recv(c))
    /\ WF_vars(\E c \in DOMAIN conn : Dispatch(c))
    /\ WF_vars(\E c \in DOMAIN conn : Send(c))
    /\ WF_vars(\E c \in DOMAIN conn : Close(c))

(* ------------------------- main(), from its start ---------------------- *)

\* The process has just been started, by root or by another user, with no
\* socket file or with one a previous run left behind; hci_device still has
\* the value the module gives it.
InitMain ==
    /\ pc = "parse_args"
    /\ hci_device = DEFAULT_HCI_DEVICE
    /\ backlog = <<>>
    /\ nconn = 0
    /\ conn = [c \in {} |-> NewConn]
    /\ store = NoStore
    /\ log = <<>>
    /\ daemon \in {Started(euid, file) : euid \in Euids, file \in {"absent", "leftover"}}
    /\ tui = NEW_APP

\* `args = parser.parse_args()`, `hci_device = args.device`, setup_logging()
ParseArgs ==
    /\ pc = "parse_args"
    /\ \E device \in HciDevices : hci_device' = device
    /\ pc' = "check_root"
    /\ UNCHANGED <<backlog, nconn, conn, store, log, daemon, tui>>

\* check_root(): sys.exit(1) unless the effective user is root.
CheckRoot ==
    /\ pc = "check_root"
    /\ IF NotRoot(daemon.euid)
       THEN /\ pc' = "exited"
            /\ daemon' = [daemon EXCEPT !.exit_status = "1",
                                        !.ended_by = "check_root"]
       ELSE /\ pc' = "signal"
            /\ UNCHANGED daemon
    /\ UNCHANGED <<hci_device, backlog, nconn, conn, store, log, tui>>

\* signal.signal(signal.SIGINT, cleanup_socket), then
\* signal.signal(signal.SIGTERM, cleanup_socket)
RegisterHandler ==
    /\ pc = "signal"
    /\ IF "SIGINT" \notin daemon.handlers
       THEN /\ daemon' = [daemon EXCEPT !.handlers = @ \cup {"SIGINT"}]
            /\ UNCHANGED pc
       ELSE /\ daemon' = [daemon EXCEPT !.handlers = @ \cup {"SIGTERM"}]
            /\ pc' = "exists"
    /\ UNCHANGED <<hci_device, backlog, nconn, conn, store, log, tui>>

\* `if os.path.exists(SOCKET_PATH): os.unlink(SOCKET_PATH)`
RemoveExisting ==
    /\ pc = "exists"
    /\ daemon' = [daemon EXCEPT !.socket_file = "absent"]
    /\ pc' = "socket"
    /\ UNCHANGED <<hci_device, backlog, nconn, conn, store, log, tui>>

\* server_socket = socket.socket(socket.AF_UNIX, socket.SOCK_STREAM)
CreateSocket ==
    /\ pc = "socket"
    /\ daemon' = [daemon EXCEPT !.server_socket = "created"]
    /\ pc' = "bind"
    /\ UNCHANGED <<hci_device, backlog, nconn, conn, store, log, tui>>

\* What main() does with an exception met inside its try block: it is logged
\* as a server error, and the finally block ends the process.
ServerError ==
    /\ pc' = "exited"
    /\ daemon' = Finally([daemon EXCEPT !.ended_by = "Exception"])

\* server_socket.bind(SOCKET_PATH): it makes the socket file, or raises: always
\* when the path is taken, and when the directory cannot be written.
Bind ==
    /\ pc = "bind"
    /\ \/ /\ daemon.socket_file = "absent"
          /\ daemon' = [daemon EXCEPT !.server_socket = "bound",
                                      !.socket_file = "bound"]
          /\ pc' = "chmod"
       \/ ServerError
    /\ UNCHANGED <<hci_device, backlog, nconn, conn, store, log, tui>>

\* os.chmod(SOCKET_PATH, 0660)
Chmod ==
    /\ pc = "chmod"
    /\ \/ pc' = "listen" /\ UNCHANGED daemon
       \/ ServerError
    /\ UNCHANGED <<hci_device, backlog, nconn, conn, store, log, tui>>

\* server_socket.listen(5)
Listen ==
    /\ pc = "listen"
    /\ daemon' = [daemon EXCEPT !.server_socket = "listening"]
    /\ pc' = "accept"
    /\ UNCHANGED <<hci_device, backlog, nconn, conn, store, log, tui>>

\* server_socket.accept() raises.
AcceptFails ==
    /\ pc = "accept"
    /\ ServerError
    /\ UNCHANGED <<hci_device, backlog, nconn, conn, store, log, tui>>

\* A signal cleanup_socket is registered for arrives: the handler removes the
\* socket file and raises SystemExit, which no `except Exception` catches; on
\* its way out it runs the finally block of handle_client_connection, which
\* closes the client socket, and, from bind on, the finally block of main().
Signal(sig) ==
    /\ pc \notin {"exited", "test"}
    /\ sig \in daemon.handlers
    /\ LET handled == cleanup_socket([daemon EXCEPT !.ended_by = sig])
       IN  daemon' = IF pc \in {"bind", "chmod", "listen", "accept", "handle"}
                     THEN Finally(handled) ELSE handled
    /\ conn' = [c \in DOMAIN conn |->
                  IF conn[c].phase \in ActivePhases
                  THEN [conn[c] EXCEPT !.phase = "closed"] ELSE conn[c]]
    /\ pc' = "exited"
    /\ UNCHANGED <<hci_device, backlog, nconn, store, log, tui>>

NextMain ==
    \/ ParseArgs
    \/ CheckRoot
    \/ RegisterHandler
    \/ RemoveExisting
    \/ CreateSocket
    \/ Bind
    \/ Chmod
    \/ Listen
    \/ AcceptFails
    \/ \E sig \in SIGNALS : Signal(sig)
    \/ Next

SpecMain == InitMain /\ [][NextMain]_vars

(* -------------------- the frontend (src/src/bt_tui.py) ----------------- *)

\* client_socket.connect(self.socket_path): what it raises ("none" when the
\* connection is made) for the daemon d and a user who may or may not write
\* to the socket file.
Connected(d, permitted) ==
    IF d.socket_file = "absent" THEN "FileNotFoundError"
    ELSE IF ~permitted THEN "PermissionError"
    ELSE IF d.server_socket # "listening" THEN "ConnectionRefusedError"
    ELSE "none"

\* The bytes of json.dumps(response).encode('utf-8'), whole or cut short, and
\* no bytes at all.
Dumps(response) == [json |-> response, cut |-> FALSE]
CutShort(bytes) == [bytes EXCEPT !.cut = TRUE]
NO_BYTES == [json |-> NoResponse, cut |-> TRUE]

\* json.loads(response_data.decode('utf-8')) raises unless the bytes are a
\* whole document.
Decodable(bytes) == ~bytes.cut

\* What the daemon makes of a request on one connection: the store it leaves
\* and the bytes it writes before it closes (none when handle_command raised).
\* The outcomes are a set, of one element for one environment.
Served(request, st, env) ==
    {[store |-> out.store,
      bytes |-> IF out.raised = "none" THEN Dumps(out.response) ELSE NO_BYTES] :
        out \in {handle_command(request, st, env)}}

\* A command json.dumps cannot encode.
NOT_SERIALIZABLE == [t |-> "set", v |-> <<>>]

\* What response_data = client_socket.recv(BUFFER_SIZE) holds of the bytes the
\* daemon wrote: all of them, a part (they came in pieces, or are more than
\* the buffer takes), or none.
Received_data(bytes, recv) ==
    IF recv = "all" THEN bytes
    ELSE IF recv = "part" THEN CutShort(bytes)
    ELSE NO_BYTES

\* The try block of send_command: what it raises, what it returns, and the
\* store the daemon is left with.
SendTry(command, d, st, net) ==
    IF Connected(d, net.permitted) # "none"
    THEN {[raised |-> Connected(d, net.permitted), result |-> NoResponse,
           store |-> st]}
    ELSE IF command = NOT_SERIALIZABLE
    THEN {[raised |-> "TypeError", result |-> NoResponse, store |-> st]}
    ELSE {LET data == Received_data(served.bytes, net.recv)
          IN  IF Decodable(data)
              THEN [raised |-> "none", result |-> data.json,
                    store |-> served.store]
              ELSE [raised |-> "JSONDecodeError", result |-> NoResponse,
                    store |-> served.store] :
              served \in Served(command, st, net.env)}

\* Mutant: send_command has the three named except clauses alone.
ClientCatchesNamed(raised) ==
    raised \in {"FileNotFoundError", "ConnectionRefusedError", "PermissionError"}

\* The except clauses of send_command end with `except Exception`.
ClientCatches(raised) ==
    raised \in EXCEPTIONS
                 \cup {"FileNotFoundError", "ConnectionRefusedError",
                       "PermissionError"}

\* The object an except clause returns.
ErrorObject(raised) ==
    IF raised = "FileNotFoundError"
    THEN Reply("error", Msg("Daemon not running (socket not found)", <<>>))
    ELSE IF raised = "ConnectionRefusedError"
    THEN Reply("error", Msg("Connection refused by daemon", <<>>))
    ELSE IF raised = "PermissionError"
    THEN Reply("error", Msg("Permission denied - check socket permissions", <<>>))
    ELSE Reply("error", Msg("Connection error: ", raised))

\* DaemonClient.send_command(command)
send_command(command, d, st, net) ==
    {IF try.raised # "none" /\ ClientCatches(try.raised)
     THEN [try EXCEPT !.raised = "none", !.result = ErrorObject(try.raised)]
     ELSE try : try \in SendTry(command, d, st, net)}

\* The commands of DaemonClient.scan_devices() and
\* DaemonClient.pair_device(mac), whose pin is "0000".
ScanCommand == JObj([action |-> JStr(SCAN)])
PairCommand(mac) ==
    JObj([action |-> JStr(PAIR), mac |-> mac, pin |-> JStr(<<"0", "0", "0", "0">>)])

\* Mutant: the device list is replaced by the data of any response that has
\* data.
action_scanAnyData(app, response) ==
    LET scanning == Append(app.status_log, Msg("Scanning for devices...", <<>>))
    IN  IF "data" \in DOMAIN response
        THEN [app EXCEPT !.devices = response.data,
                         !.status_log =
                             Append(scanning, Msg("Scan complete", Len(response.data)))]
        ELSE [app EXCEPT !.status_log =
                             Append(scanning, Msg("Scan failed: ", response.message))]

\* BluetoothTUI.action_scan, given the response of the daemon client.
action_scan(app, response) ==
    LET scanning == Append(app.status_log, Msg("Scanning for devices...", <<>>))
    IN  IF response.status = "success"
        THEN LET data == IF "data" \in DOMAIN response THEN response.data ELSE <<>>
             IN  [app EXCEPT !.devices = data,
                             !.status_log =
                                 Append(scanning, Msg("Scan complete", Len(data)))]
        ELSE [app EXCEPT !.status_log =
                             Append(scanning,
                                    Msg("Scan failed: ",
                                        IF "message" \in DOMAIN response
                                        THEN response.message
                                        ELSE Msg("Unknown error", <<>>)))]

\* BluetoothTUI.action_pair after the daemon client has answered.
action_pair(app, mac, response) ==
    LET pairing == Append(app.status_log, Msg("Pairing with ", mac))
    IN  IF response.status = "success"
        THEN [app EXCEPT !.status_log =
                             Append(pairing, Msg("Paired successfully with ", mac))]
        ELSE [app EXCEPT !.status_log =
                             Append(pairing,
                                    Msg("Pairing failed: ",
                                        IF "message" \in DOMAIN response
                                        THEN response.message
                                        ELSE Msg("Unknown error", <<>>)))]

\* What the daemon's environment does during one command: an inquiry that
\* finds two devices or times out, a restart of hcsecd that succeeds or fails.
TuiEnvironments(command) ==
    LET request == IF command = NOT_SERIALIZABLE THEN JList ELSE command
    IN  {e \in Environments(request) :
            /\ e.io = "none"
            /\ e.reload \in {"exit0", "nonzero"}
            /\ e.scan \in {IDLE_SCAN,
                            [how |-> "exit0", stdout |-> OutTwoOnLine],
                            [how |-> "TimeoutExpired", stdout |-> <<>>]}}

\* What the socket between the two processes does during one command, with
\* the daemon's environment where the command reaches the daemon.
Nets(command) ==
    LET idle == [dev |-> hci_device, io |-> "none", reload |-> "exit0",
                 scan |-> IDLE_SCAN]
    IN  IF Connected(daemon, TRUE) # "none"
        THEN {[permitted |-> TRUE, recv |-> "none", env |-> idle]}
        ELSE IF command = NOT_SERIALIZABLE
        THEN {[permitted |-> p, recv |-> "none", env |-> idle] : p \in BOOLEAN}
        ELSE {[permitted |-> FALSE, recv |-> "none", env |-> idle]}
             \cup {[permitted |-> TRUE, recv |-> r,
                    env |-> [dev |-> hci_device, io |-> e.io,
                             reload |-> e.reload, scan |-> e.scan]] :
                      r \in {"all", "part", "none"},
                      e \in TuiEnvironments(command)}

\* The frontend has been started; the daemon serves, or has ended with its
\* socket file removed, or was killed with the socket file left behind.
InitTui ==
    /\ \/ pc = "accept" /\ daemon = SERVING
       \/ pc = "exited" /\ daemon = Finally([SERVING EXCEPT !.ended_by = "SIGTERM"])
       \/ /\ pc = "exited"
          /\ daemon = [SERVING EXCEPT !.server_socket = "closed",
                                      !.socket_file = "leftover",
                                      !.ended_by = "SIGKILL"]
    /\ hci_device = DEFAULT_HCI_DEVICE
    /\ backlog = <<>>
    /\ nconn = 0
    /\ conn = [c \in {} |-> NewConn]
    /\ store = NoStore
    /\ log = <<>>
    /\ tui = NEW_APP

\* One event of the frontend, logged with the command it sent (None when it
\* sent none), what the daemon client raised or returned, and the application
\* before and after.
TuiEvent(fn, command, net, sent, app) ==
    /\ tui' = app
    /\ store' = sent.store
    /\ log' = Append(log, [fn |-> fn, command |-> command, net |-> net,
                           daemon |-> daemon, raised |-> sent.raised,
                           response |-> sent.result, before |-> tui,
                           after |-> app])
    /\ UNCHANGED <<pc, hci_device, backlog, nconn, conn, daemon>>

\* The user presses 's' or the Scan button. An exception send_command lets
\* through ends the handler after its first line.
ActionScan ==
    /\ Len(log) < MaxEvents
    /\ \E net \in Nets(ScanCommand) :
         \E sent \in send_command(ScanCommand, daemon, store, net) :
             TuiEvent("action_scan", ScanCommand, net, sent,
                      IF sent.raised = "none" THEN action_scan(tui, sent.result)
                      ELSE [tui EXCEPT !.status_log =
                                Append(@, Msg("Scanning for devices...", <<>>))])

\* The user selects an item of the device list: on_list_view_selected.
Select ==
    /\ Len(log) < MaxEvents
    /\ \E k \in 1..Len(tui.devices) :
         LET device == tui.devices[k]
         IN  TuiEvent("on_list_view_selected", JNull, JNull,
                      [raised |-> "none", result |-> NoResponse, store |-> store],
                      [tui EXCEPT !.selected_device = device,
                                  !.status_log =
                                      Append(@, Msg("Selected device: ", device.mac))])

\* The user presses 'p' or the Pair button.
ActionPair ==
    /\ Len(log) < MaxEvents
    /\ IF tui.selected_device = JNull
       THEN TuiEvent("action_pair", JNull, JNull,
                     [raised |-> "none", result |-> NoResponse, store |-> store],
                     [tui EXCEPT !.status_log =
                          Append(@, Msg("No device selected for pairing", <<>>))])
       ELSE LET mac == tui.selected_device.mac
                command == PairCommand(JStr(mac))
            IN  \E net \in Nets(command) :
                    \E sent \in send_command(command, daemon, store, net) :
                        TuiEvent("action_pair", command, net, sent,
                                 IF sent.raised = "none"
                                 THEN action_pair(tui, mac, sent.result)
                                 ELSE [tui EXCEPT !.status_log =
                                           Append(@, Msg("Pairing with ", mac))])

\* send_command called with a command of the caller's own: a JSON value that
\* is no object, or a value json.dumps rejects.
CallSendCommand ==
    /\ Len(log) < MaxEvents
    /\ \E command \in {JList, NOT_SERIALIZABLE} :
         \E net \in Nets(command) :
             \E sent \in send_command(command, daemon, store, net) :
                 TuiEvent("send_command", command, net, sent, tui)

NextTui ==
    \/ ActionScan
    \/ Select
    \/ ActionPair
    \/ CallSendCommand

SpecTui == InitTui /\ [][NextTui]_vars

(* ------------------- update_hcsecd_conf called directly ---------------- *)

\* The arguments the direct calls draw from (tests/test_config.py calls the
\* function on a store of its own, with a name of its own).
NEW_DEVICE == <<"N", "e", "w", "D", "e", "v", "i", "c", "e">>
TestMacs == {JStr(MacA), JStr(MacT), JStr(MacFragment), JStr(<<>>), JNum}
TestNames == {JStr(NEW_DEVICE)}

InitConf ==
    /\ pc = "test"
    /\ hci_device = DEFAULT_HCI_DEVICE
    /\ backlog = <<>>
    /\ nconn = 0
    /\ conn = [c \in {} |-> NewConn]
    /\ store \in InitStores
    /\ log = <<>>
    /\ daemon = IMPORTED
    /\ tui = NEW_APP

\* One call update_hcsecd_conf(conf_path, mac, pin, name), logged with the
\* store it found, the exception it raised, the value it returned and the
\* store it left.
CallUpdate(mac, pin, name, io) ==
    /\ pc = "test"
    /\ Len(log) < MaxCalls
    /\ LET r == update_hcsecd_conf(store, mac, pin, name, io)
       IN  /\ store' = r.store
           /\ log' = Append(log, [mac |-> mac, pin |-> pin, name |-> name,
                                  io |-> io, before |-> store,
                                  raised |-> r.raised, ok |-> r.ok,
                                  after |-> r.store])
    /\ UNCHANGED <<pc, hci_device, backlog, nconn, conn, daemon, tui>>

NextConf ==
    \E mac \in TestMacs, pin \in PinValues, name \in TestNames, io \in IOFaults :
        CallUpdate(mac, pin, name, io)

SpecConf == InitConf /\ [][NextConf]_vars

(* -------------- handle_command and scan_devices called directly -------- *)

\* The requests the direct calls hand to handle_command.
DispatchRequests ==
    {JObj([action |-> JStr(SCAN)]), JObj([action |-> JStr(BOGUS)]),
     JObj([action |-> JStr(PAIR)]),
     JObj([action |-> JStr(PAIR), mac |-> JStr(MacA)]),
     JObj([action |-> JStr(PAIR), mac |-> JStr(MacT), pin |-> JStr(PIN_1234)])}

\* What the mocked environment of a direct call does: one failure of each
\* collaborator next to its success.
DispatchEnvironments(request) ==
    {e \in Environments(request) :
        /\ e.io \in {"none", "append"}
        /\ e.reload \in {"exit0", "nonzero"}
        /\ e.scan.how \in {"exit0", "TimeoutExpired"}}

\* The adapter names tests/test_argparse.py passes as an argument
\* (custom_device); the global hci_device keeps its default.
TestDevices == HciDevices \ {DEFAULT_HCI_DEVICE}

\* What the tests pass after the arguments the function declares: nothing, or
\* an adapter name.
ExtraArguments == {<<>>} \cup {<<d>> : d \in TestDevices}

\* A call with more positional arguments than the function takes raises
\* TypeError before the body runs.
TooManyArguments(params, given) == given > params

InitDispatch ==
    /\ pc = "test"
    /\ hci_device = DEFAULT_HCI_DEVICE
    /\ backlog = <<>>
    /\ nconn = 0
    /\ conn = [c \in {} |-> NewConn]
    /\ store \in InitStores
    /\ log = <<>>
    /\ daemon = IMPORTED
    /\ tui = NEW_APP

\* One direct call, logged with what it was given, the store it found, what
\* it raised or returned, what it called and the store it left.
Logged(fn, request, extra, e, out) ==
    /\ pc = "test"
    /\ Len(log) < MaxCalls
    /\ store' = out.store
    /\ log' = Append(log, [fn |-> fn, request |-> request, extra |-> extra,
                           env |-> e, before |-> store, raised |-> out.raised,
                           response |-> out.response, calls |-> out.calls,
                           after |-> out.store])
    /\ UNCHANGED <<pc, hci_device, backlog, nconn, conn, daemon, tui>>

\* handle_command(command_data) and handle_command(command_data, device)
CallHandleCommand(request, extra, e) ==
    Logged("handle_command", request, extra, e,
           IF TooManyArguments(HANDLE_COMMAND_PARAMS, 1 + Len(extra))
           THEN Outcome("TypeError", NoResponse, store, <<>>)
           ELSE handle_command(request, store,
                               [dev |-> hci_device, io |-> e.io,
                                reload |-> e.reload, scan |-> e.scan]))

\* scan_devices() and scan_devices(device)
CallScanDevices(extra, e) ==
    Logged("scan_devices", JObj([action |-> JStr(SCAN)]), extra, e,
           IF TooManyArguments(SCAN_DEVICES_PARAMS, Len(extra))
           THEN Outcome("TypeError", NoResponse, store, <<>>)
           ELSE Outcome("none", scan_devices(e.scan), store,
                        ScanCalls(hci_device, e.scan)))

NextDispatch ==
    \/ \E request \in DispatchRequests :
          \E e \in DispatchEnvironments(request) :
              CallHandleCommand(request, <<>>, e)
    \/ \E extra \in ExtraArguments \ {<<>>} :
          CallHandleCommand(JObj([action |-> JStr(SCAN)]), extra, IDLE_SCAN_ENV)
    \/ \E extra \in ExtraArguments,
          e \in DispatchEnvironments(JObj([action |-> JStr(SCAN)])) :
          CallScanDevices(extra, e)

SpecDispatch == InitDispatch /\ [][NextDispatch]_vars

(* ----------------- parse_inquiry_output called directly ---------------- *)

MacLower ==
    <<"a", "a", ":", "b", "b", ":", "c", "c", ":", "d", "d", ":", "e", "e",
      ":", "f", "f">>

\* Five colons, but no two-digit groups.
FIVE_COLONS == <<"1", ":", "2", ":", "3", ":", "4", ":", "5", ":", "6">>

\* "123:456", the line of test_parse_garbage that looks a little like an
\* address.
TWO_GROUPS == <<"1", "2", "3", ":", "4", "5", "6">>

\* The lines the texts are made of: blank, header lines (plain, with an
\* address, indented with an address), bare and labelled addresses, two
\* addresses on one line, and tokens that only resemble an address.
InquiryLines ==
    {<<>>,
     INQUIRY_HEADER \o <<" ", "#", "0">>,
     INQUIRY_HEADER \o <<" ">> \o Mac0,
     <<" ">> \o INQUIRY_HEADER \o <<" ">> \o MacT,
     Mac0,
     MacT,
     <<"\t">> \o BD_ADDR \o <<":", " ">> \o MacA,
     MacLower \o <<" ">> \o MacT,
     TWO_GROUPS,
     FIVE_COLONS,
     FIVE_COLONS \o <<" ">> \o MacA}

\* '\n'.join(lines)
RECURSIVE JoinLines(_)
JoinLines(lines) ==
    IF lines = <<>> THEN <<>>
    ELSE IF Len(lines) = 1 THEN lines[1]
    ELSE lines[1] \o <<"\n">> \o JoinLines(Tail(lines))

\* The texts of at most MaxLines of these lines.
InquiryTexts ==
    {JoinLines(lines) :
        lines \in UNION {[1..n -> InquiryLines] : n \in 0..MaxLines}}

InitParse ==
    /\ pc = "test"
    /\ hci_device = DEFAULT_HCI_DEVICE
    /\ backlog = <<>>
    /\ nconn = 0
    /\ conn = [c \in {} |-> NewConn]
    /\ store = NoStore
    /\ log = <<>>
    /\ daemon = IMPORTED
    /\ tui = NEW_APP

\* One call parse_inquiry_output(text), logged with what it returned; each
\* test makes one.
CallParse(text) ==
    /\ pc = "test"
    /\ log = <<>>
    /\ log' = <<[text |-> text, devices |-> parse_inquiry_output(text)]>>
    /\ UNCHANGED <<pc, hci_device, backlog, nconn, conn, store, daemon, tui>>

NextParse == \E text \in InquiryTexts : CallParse(text)

SpecParse == InitParse /\ [][NextParse]_vars

(* ------------------------------ properties ----------------------------- *)

Closed(c) == conn[c].phase = "closed"

\* handle_command has returned or raised on this connection.
WasDispatched(c) == conn[c].calls # <<>>

\* The handler read at least one byte.
GotBytes(c) == conn[c].data.enc \in {"bad_utf8", "utf8"}

\* C1: every connection on which at least one byte was received has had a
\* well-formed response written to it by the time it is closed, and a
\* connection closed with nothing written is one on which no byte was read.
C1_AlwaysAnswered ==
    \A c \in DOMAIN conn :
        Closed(c) =>
            /\ GotBytes(c) =>
                 /\ conn[c].wrote # <<>>
                 /\ \A i \in 1..Len(conn[c].wrote) : WellFormed(conn[c].wrote[i])
            /\ conn[c].wrote = <<>> => ~GotBytes(c)

\* Bytes that are received but are no structured request: no UTF-8, or no JSON.
Undecodable(c) ==
    \/ conn[c].data.enc = "bad_utf8"
    \/ conn[c].data.enc = "utf8" /\ conn[c].data.doc.t = "malformed"

\* C2: a connection whose bytes are non-empty and cannot be decoded is
\* answered with exactly one response, the "Invalid JSON format" error, before
\* it is closed, and neither handle_command nor anything behind it is invoked.
C2_UndecodableAnswered ==
    \A c \in DOMAIN conn :
        (Closed(c) /\ Undecodable(c)) =>
            /\ conn[c].wrote = <<InvalidJson>>
            /\ conn[c].calls = <<>>

\* C3: whatever fails while one connection is handled, the connection goes to
\* its close and the step that closes it leaves main() at accept(): the loop
\* never ends with a connection.
C3_FailureContained ==
    [][\A c \in DOMAIN conn \cap DOMAIN conn' :
          /\ conn'[c].fault # "none" => conn'[c].phase \in {"closing", "closed"}
          /\ (conn[c].phase # "closed" /\ conn'[c].phase = "closed")
               => pc' = "accept"]_vars

\* A connection failed and was closed, and the server is about to accept the
\* next one, which is waiting.
C3_Witness ==
    \E c \in DOMAIN conn :
        /\ Closed(c)
        /\ conn[c].fault \in {"UnicodeDecodeError", "AttributeError"}
        /\ pc = "accept"
        /\ backlog # <<>>

\* C4: a read of zero bytes ends the connection with no response written, no
\* dispatch and no exception, and the server goes on.
C4_EmptyReadSilent ==
    \A c \in DOMAIN conn :
        conn[c].data.enc = "empty" =>
            /\ conn[c].phase \in {"closing", "closed"}
            /\ conn[c].wrote = <<>>
            /\ conn[c].calls = <<>>
            /\ conn[c].fault = "none"
            /\ pc # "exited"
            /\ Closed(c) => pc = "accept"

C4_Witness ==
    \E c \in DOMAIN conn :
        Closed(c) /\ conn[c].data.enc = "empty" /\ conn[c].sent = <<>> /\ pc = "accept"

\* C5: at most one connection is inside handle_client_connection, and main()
\* is at accept() only when none is: connection k+1 waits in the queue until
\* connection k is closed.
C5_OneAtATime ==
    /\ Cardinality(Active) <= 1
    /\ pc = "accept" => Active = {}
    /\ \A c \in Active : \A d \in DOMAIN conn : d > c => conn[d].phase = "pending"

\* A connection is being dispatched while the next one waits.
C5_Witness ==
    \E c \in Active :
        /\ conn[c].phase = "send"
        /\ WasDispatched(c)
        /\ \E d \in DOMAIN conn : d > c /\ conn[d].phase = "pending"


\* The step in which handle_command runs for connection c.
DispatchStep(c) == conn[c].phase = "dispatch" /\ conn'[c].phase # "dispatch"

ActionOf(request) == Get(request, "action", JStr(<<>>))

\* A pair request whose "mac" is missing or the empty string.
PairNoMac(request) ==
    /\ request.t = "dict"
    /\ ActionOf(request) = JStr(PAIR)
    /\ "mac" \notin DOMAIN request.v \/ request.v.mac = JStr(<<>>)

\* C6: a pair request without an address, or with an empty one, is answered
\* with the error "No MAC address provided"; the store is neither created nor
\* changed and neither update_hcsecd_conf nor the service restart is called.
C6_PairWithoutAddress ==
    [][\A c \in DOMAIN conn \cap DOMAIN conn' :
          (DispatchStep(c) /\ PairNoMac(conn[c].request)) =>
              /\ conn'[c].phase = "send"
              /\ conn'[c].response
                   = Reply("error", Msg("No MAC address provided", <<>>))
              /\ conn'[c].calls = <<Call("handle_command", <<>>, "")>>
              /\ store' = store]_vars

C6_Witness ==
    \E c \in DOMAIN conn :
        /\ Closed(c)
        /\ PairNoMac(conn[c].request)
        /\ "mac" \in DOMAIN conn[c].request.v
        /\ conn[c].sent = <<Reply("error", Msg("No MAC address provided", <<>>))>>
        /\ store = NoStore

\* A request whose action is neither "scan" nor "pair", or is missing.
UnknownAction(request) ==
    /\ request.t = "dict"
    /\ ActionOf(request) \notin {JStr(SCAN), JStr(PAIR)}

\* C7: a request with any other action, or with none, is answered with an
\* error whose message ends with the action received; no inquiry is run, the
\* store is not touched and the service is not restarted.
C7_UnknownAction ==
    [][\A c \in DOMAIN conn \cap DOMAIN conn' :
          (DispatchStep(c) /\ UnknownAction(conn[c].request)) =>
              /\ conn'[c].phase = "send"
              /\ conn'[c].response.status = "error"
              /\ conn'[c].response.message.text = "Unknown action: "
              /\ conn'[c].response.message.arg = Format(ActionOf(conn[c].request))
              /\ conn'[c].calls = <<Call("handle_command", <<>>, "")>>
              /\ store' = store]_vars

C7_Witness ==
    \E c \in DOMAIN conn :
        /\ Closed(c)
        /\ UnknownAction(conn[c].request)
        /\ Len(conn[c].sent) = 1
        /\ conn[c].sent[1].status = "error"
        /\ conn[c].sent[1].message.arg = BOGUS
        /\ store = NoStore

\* The calls of one function made for connection c.
CallsOf(c, fn) == SelectSeq(conn[c].calls, LAMBDA k : k.fn = fn)

\* The device block a pair request asks for.
RequestedBlock(request) ==
    Entry(Format(request.v.mac), DEFAULT_NAME,
          Format(Get(request, "pin", JStr(DEFAULT_PIN))))

\* C8: when update_hcsecd_conf returned True for a pair request, the service
\* restart is called; its success gives status success, its failure status
\* warning, and either way the store holds the new block with the address and
\* the pin of the request.
C8_PairOutcome ==
    \A c \in DOMAIN conn :
        LET upd == CallsOf(c, "update_hcsecd_conf")
            rel == CallsOf(c, "restart_hcsecd_service")
        IN  (upd # <<>> /\ upd[1].ret = "True") =>
                /\ Len(rel) = 1
                /\ rel[1].ret = "True" => conn[c].response.status = "success"
                /\ rel[1].ret = "False" => conn[c].response.status = "warning"
                /\ IsSubstring(RequestedBlock(conn[c].request), store.content)
                /\ BlockCount(store.content, Format(conn[c].request.v.mac)) >= 1

\* A pair ended in warning and its block is in the store.
C8_Witness ==
    \E c \in DOMAIN conn :
        /\ Closed(c)
        /\ Len(conn[c].sent) = 1
        /\ conn[c].sent[1].status = "warning"
        /\ conn[c].request.v.mac = JStr(MacA)
        /\ BlockCount(store.content, MacA) = 1

\* C9: when update_hcsecd_conf returned False for a pair request, the response
\* is the error "Failed to update configuration (or already paired)" and the
\* service restart is not called.
C9_UpdateRefused ==
    \A c \in DOMAIN conn :
        LET upd == CallsOf(c, "update_hcsecd_conf")
        IN  (upd # <<>> /\ upd[1].ret = "False") =>
                /\ conn[c].response
                     = Reply("error",
                             Msg("Failed to update configuration (or already paired)",
                                 <<>>))
                /\ CallsOf(c, "restart_hcsecd_service") = <<>>

\* A pair for an address the store already holds was refused.
C9_Witness ==
    \E c \in DOMAIN conn :
        /\ Closed(c)
        /\ CallsOf(c, "update_hcsecd_conf")
             = <<Call("update_hcsecd_conf", MacT, "False")>>
        /\ Len(conn[c].sent) = 1
        /\ conn[c].sent[1].status = "error"
        /\ store = StoreOf(FixtureConf)

\* Two calls in a row with the same address (each call finds the store the
\* call before it left).
InARow(i) == i + 1 <= Len(log) /\ log[i + 1].mac = log[i].mac

\* C10 as stated: of two calls in a row with the same address the first
\* returns True and the second False, and the store then holds exactly one
\* block for the address.
C10_TrueThenFalse ==
    \A i \in 1..Len(log) :
        InARow(i) =>
            /\ log[i].ok
            /\ ~log[i + 1].ok
            /\ BlockCount(log[i + 1].after.content, Format(log[i].mac)) = 1

\* C10 amended: when the first of two such calls returns True, the second
\* returns False and changes nothing, and the store then is what the first
\* call found (created, if it was missing) followed by exactly one block for
\* the address.
C10_SecondRefused ==
    \A i \in 1..Len(log) :
        (InARow(i) /\ log[i].ok) =>
            /\ ~log[i + 1].ok
            /\ log[i + 1].after = log[i].after
            /\ log[i + 1].after.content
                 = Created(log[i].before).content
                   \o Entry(Format(log[i].mac), Format(log[i].name),
                            Format(log[i].pin))

\* The first call added the address to a store that did not exist, the second
\* call, with no failing file operation, refused it.
C10_Witness ==
    \E i \in 1..Len(log) :
        /\ InARow(i)
        /\ log[i].before = NoStore
        /\ log[i].ok
        /\ log[i + 1].io = "none"
        /\ ~log[i + 1].ok
        /\ BlockCount(store.content, Format(log[i].mac)) = 1


(* ---- C11..C14: update_hcsecd_conf, call by call ---- *)

\* One line of a device block: a tab, the key, a tab, the value, ";".
FieldLine(key, value) == <<"\t">> \o key \o <<"\t">> \o value \o <<";", "\n">>

\* The device block the format of hcsecd.conf asks for: address, display name,
\* the nokey placeholder and the pin, after an empty line.
DeviceBlock(mac, name, pin) ==
    <<"\n", "d", "e", "v", "i", "c", "e", " ", "{", "\n">>
    \o FieldLine(<<"b", "d", "a", "d", "d", "r">>, mac)
    \o FieldLine(<<"n", "a", "m", "e">>, Quoted(name))
    \o FieldLine(<<"k", "e", "y">>, <<"n", "o", "k", "e", "y">>)
    \o FieldLine(<<"p", "i", "n">>, Quoted(pin))
    \o <<"}", "\n">>

\* The address of call e is a string that occurs in `content`.
Occurs(e, content) == e.mac.t = "str" /\ IsSubstring(e.mac.v, content)

\* C11: a call whose address already occurs anywhere in the content of the
\* store, as a literal substring, returns False and leaves the store exactly
\* as it was.
C11_DuplicateRefused ==
    \A i \in 1..Len(log) :
        (log[i].before.exists /\ Occurs(log[i], log[i].before.content)) =>
            /\ log[i].raised = "none"
            /\ ~log[i].ok
            /\ log[i].after = log[i].before

\* The address of the fixture's device was offered to the fixture store, with
\* no failing file operation, and refused.
C11_Witness ==
    \E i \in 1..Len(log) :
        /\ log[i].before = StoreOf(FixtureConf)
        /\ log[i].mac = JStr(MacT)
        /\ log[i].io = "none"
        /\ ~log[i].ok
        /\ log[i].after = StoreOf(FixtureConf)

\* C12: a call whose address does not occur in the content of the store, and
\* whose file operations succeed, returns True, and the new content is the old
\* content, unchanged, followed by exactly one device block with the address,
\* the given name, the nokey placeholder and the given pin.
C12_FreshAppended ==
    \A i \in 1..Len(log) :
        (/\ log[i].before.exists
         /\ log[i].io = "none"
         /\ log[i].mac.t = "str"
         /\ ~Occurs(log[i], log[i].before.content)) =>
            /\ log[i].raised = "none"
            /\ log[i].ok
            /\ log[i].after.exists
            /\ log[i].after.content =
                   log[i].before.content
                   \o DeviceBlock(log[i].mac.v, log[i].name.v, log[i].pin.v)

\* A fresh address was added to the fixture store: the fixture's device is
\* still there, and the new one once.
C12_Witness ==
    \E i \in 1..Len(log) :
        /\ log[i].before = StoreOf(FixtureConf)
        /\ log[i].mac = JStr(MacA)
        /\ log[i].ok
        /\ StartsWith(log[i].after.content, FixtureConf)
        /\ BlockCount(log[i].after.content, MacT) = 1
        /\ BlockCount(log[i].after.content, MacA) = 1

\* Exactly one line, and a comment.
OneCommentLine(s) ==
    /\ s # <<>>
    /\ s[1] = "#"
    /\ s[Len(s)] = "\n"
    /\ Count(s, "\n") = 1

\* C13: a call that finds no store, and whose creating open succeeds, first
\* creates it with exactly one header comment line, and then goes on (read,
\* existence check, append) as it does for an existing store of that content.
C13_MissingCreated ==
    \A i \in 1..Len(log) :
        (~log[i].before.exists /\ log[i].io # "create") =>
            LET e == log[i]
                existing ==
                    update_hcsecd_conf(StoreOf(HEADER_LINE), e.mac, e.pin,
                                       e.name, e.io)
            IN  /\ OneCommentLine(HEADER_LINE)
                /\ e.after.exists
                /\ StartsWith(e.after.content, HEADER_LINE)
                /\ e.ok = existing.ok
                /\ e.after = existing.store
                /\ ~e.ok => e.after.content = HEADER_LINE
                /\ e.ok => e.after.content =
                               HEADER_LINE
                               \o DeviceBlock(e.mac.v, e.name.v, e.pin.v)

\* An address was added to a store that did not exist: the store now holds the
\* header line and the block.
C13_Witness ==
    \E i \in 1..Len(log) :
        /\ log[i].before = NoStore
        /\ log[i].mac = JStr(MacA)
        /\ log[i].ok
        /\ log[i].after.content =
               HEADER_LINE \o DeviceBlock(MacA, log[i].name.v, log[i].pin.v)

\* Call e met an open() that failed: the creating one, the reading one, or
\* the appending one (reached only for a string address that is not yet in
\* the content).
FileFailure(e) ==
    \/ e.io = "create" /\ ~e.before.exists
    \/ e.io = "read"
    \/ /\ e.io = "append"
       /\ e.mac.t = "str"
       /\ ~Occurs(e, IF e.before.exists THEN e.before.content ELSE HEADER_LINE)

\* C14 as stated: a call that cannot read or write the store fails with an
\* I/O error instead of returning a boolean.
C14_IOErrorRaised ==
    \A i \in 1..Len(log) : FileFailure(log[i]) => log[i].raised = "OSError"

\* C14, amended: a call that cannot read or write the store raises nothing and
\* returns False; an existing store is left as it was, a missing one is left
\* missing or holds the header line alone.
C14_IOErrorReturnsFalse ==
    \A i \in 1..Len(log) :
        FileFailure(log[i]) =>
            /\ log[i].raised = "none"
            /\ ~log[i].ok
            /\ log[i].before.exists => log[i].after = log[i].before
            /\ ~log[i].before.exists =>
                   log[i].after =
                       IF log[i].io = "create" THEN NoStore
                       ELSE StoreOf(HEADER_LINE)

\* The appending open failed for a fresh address on the fixture store, and
\* the call returned False.
C14_Witness ==
    \E i \in 1..Len(log) :
        /\ log[i].before = StoreOf(FixtureConf)
        /\ log[i].mac = JStr(MacA)
        /\ log[i].io = "append"
        /\ log[i].raised = "none"
        /\ ~log[i].ok


(* ---- C15..C17: the pin written, and the scan responses ---- *)

EndsWith(s, p) ==
    Len(p) <= Len(s) /\ SubSeq(s, Len(s) - Len(p) + 1, Len(s)) = p

\* The pin a pair request asks for: the one it carries, "0000" when it has none.
RequestedPin(request) ==
    IF "pin" \in DOMAIN request.v THEN request.v.pin.v
    ELSE <<"0", "0", "0", "0">>

\* C15: the block written for a pair request carries the pin of the request,
\* exactly, and the pin "0000" when the request has none.
C15_PinWritten ==
    \A c \in DOMAIN conn :
        LET upd == CallsOf(c, "update_hcsecd_conf")
        IN  (upd # <<>> /\ upd[1].ret = "True") =>
                EndsWith(store.content,
                         DeviceBlock(conn[c].request.v.mac.v,
                                     <<"U", "n", "k", "n", "o", "w", "n">>,
                                     RequestedPin(conn[c].request)))

\* A pair request without pin was answered, and the block in the store has
\* the pin "0000".
C15_Witness ==
    \E c \in DOMAIN conn :
        /\ Closed(c)
        /\ Len(conn[c].sent) = 1
        /\ "pin" \notin DOMAIN conn[c].request.v
        /\ CallsOf(c, "update_hcsecd_conf")
             = <<Call("update_hcsecd_conf", MacA, "True")>>
        /\ EndsWith(store.content,
                    FieldLine(<<"p", "i", "n">>, Quoted(<<"0", "0", "0", "0">>))
                    \o <<"}", "\n">>)

\* How the inquiry command ended for connection c, if it was run.
InquiryOf(c) == CallsOf(c, "subprocess.run")

\* C16: whenever the inquiry fails (non-zero exit, timeout, command not found,
\* any other error) the scan response has status error and an empty data
\* sequence; nothing is raised, and the handler goes on to write the response.
C16_ScanFailure ==
    \A c \in DOMAIN conn :
        (InquiryOf(c) # <<>> /\ InquiryOf(c)[1].ret # "exit0") =>
            /\ conn[c].phase \in {"send", "closing", "closed"}
            /\ DOMAIN conn[c].response = {"status", "message", "data"}
            /\ conn[c].response.status = "error"
            /\ conn[c].response.data = <<>>
            /\ conn[c].phase # "send" => conn[c].wrote = <<conn[c].response>>

\* The inquiry timed out and the client got the error response.
C16_Witness ==
    \E c \in DOMAIN conn :
        /\ Closed(c)
        /\ InquiryOf(c) # <<>>
        /\ InquiryOf(c)[1].ret = "TimeoutExpired"
        /\ Len(conn[c].sent) = 1
        /\ conn[c].sent[1].status = "error"
        /\ conn[c].sent[1].data = <<>>

\* C17: whenever the inquiry exits with code 0 the scan response has status
\* success and its data is exactly what parse_inquiry_output returns for the
\* text the command printed.
C17_ScanSuccess ==
    \A c \in DOMAIN conn :
        (InquiryOf(c) # <<>> /\ InquiryOf(c)[1].ret = "exit0") =>
            LET parsed == CallsOf(c, "parse_inquiry_output")
            IN  /\ Len(parsed) = 1
                /\ DOMAIN conn[c].response = {"status", "data"}
                /\ conn[c].response.status = "success"
                /\ conn[c].response.data = parse_inquiry_output(parsed[1].arg)
                /\ conn[c].phase # "send" => conn[c].wrote = <<conn[c].response>>

\* A scan found two devices and the client got both, in order.
C17_Witness ==
    \E c \in DOMAIN conn :
        /\ Closed(c)
        /\ InquiryOf(c) # <<>>
        /\ InquiryOf(c)[1].ret = "exit0"
        /\ Len(conn[c].sent) = 1
        /\ conn[c].sent[1].status = "success"
        /\ Len(conn[c].sent[1].data) = 2
        /\ conn[c].sent[1].data[1].mac = MacA
        /\ conn[c].sent[1].data[2].mac = MacT


(* ---- C18..C20: parse_inquiry_output, text by text ---- *)

HEX_DIGITS ==
    {"0", "1", "2", "3", "4", "5", "6", "7", "8", "9",
     "a", "b", "c", "d", "e", "f", "A", "B", "C", "D", "E", "F"}

\* A well-formed hardware address: six groups of two hexadecimal digits,
\* separated by colons.
WellFormedAddress(token) ==
    /\ Len(token) = 17
    /\ \A i \in 1..17 :
           IF i % 3 = 0 THEN token[i] = ":" ELSE token[i] \in HEX_DIGITS

\* The well-formed addresses among the tokens of a text or of a line.
WellFormedIn(text) == SelectSeq(SplitWords(text), WellFormedAddress)

\* The addresses of the records, in order.
MacsOf(devices) == [i \in 1..Len(devices) |-> devices[i].mac]

\* C18 as stated: a text without any well-formed hardware address among its
\* tokens is parsed to the empty sequence.
C18_NoAddressNoRecord ==
    \A i \in 1..Len(log) :
        WellFormedIn(log[i].text) = <<>> => log[i].devices = <<>>

\* A line that begins with the inquiry-header phrase.
HeaderLine(line) == StartsWith(line, INQUIRY_HEADER)

\* The lines of a text that are no header lines and hold a well-formed address.
AddressLines(text) ==
    SelectSeq(SplitLines(text),
              LAMBDA line : ~HeaderLine(line) /\ WellFormedIn(line) # <<>>)

\* The well-formed addresses of a text are on separate non-header lines, and
\* no two of them are equal.
SeparateDistinct(text) ==
    LET lines == AddressLines(text)
    IN  /\ \A k \in 1..Len(lines) : Len(WellFormedIn(lines[k])) = 1
        /\ \A j, k \in 1..Len(lines) :
               j # k => WellFormedIn(lines[j]) # WellFormedIn(lines[k])

\* C19 as stated: a text with N well-formed, distinct addresses on separate
\* non-header lines is parsed to exactly N records, whose addresses are those
\* tokens, letter for letter, in the order of the lines.
C19_OneRecordPerAddress ==
    \A i \in 1..Len(log) :
        SeparateDistinct(log[i].text) =>
            LET lines == AddressLines(log[i].text)
            IN  MacsOf(log[i].devices)
                  = [k \in 1..Len(lines) |-> WellFormedIn(lines[k])[1]]

\* The tokens of a line that have exactly five colons.
FiveColonTokens(line) ==
    SelectSeq(SplitWords(line),
              LAMBDA token : Cardinality({k \in 1..Len(token) : token[k] = ":"}) = 5)

\* The lines of the text, as the parser cuts them, that give a record: no
\* header lines, with a token of five colons.
RecordLines(text) ==
    SelectSeq(SplitLines(Strip(text)),
              LAMBDA line : ~HeaderLine(line) /\ FiveColonTokens(line) # <<>>)

\* C20: each line gives at most one record, and its address is the first
\* token of the line with exactly five colons, whatever tokens follow.
C20_FirstTokenPerLine ==
    \A i \in 1..Len(log) :
        LET lines == RecordLines(log[i].text)
        IN  /\ Len(log[i].devices) <= Len(SplitLines(log[i].text))
            /\ MacsOf(log[i].devices)
                 = [k \in 1..Len(lines) |-> FiveColonTokens(lines[k])[1]]

\* A line with two addresses was parsed: one record, with the first of them.
C20_Witness ==
    \E i \in 1..Len(log) :
        /\ log[i].text = MacLower \o <<" ">> \o MacT
        /\ Len(FiveColonTokens(log[i].text)) = 2
        /\ MacsOf(log[i].devices) = <<MacLower>>


(* ---- C21, C22: the records of one parse ---- *)

\* C21 as stated: no two records returned by one run of parse_inquiry_output
\* have the same address.
C21_UniqueAddresses ==
    \A i \in 1..Len(log) :
        \A j, k \in 1..Len(log[i].devices) :
            j # k => log[i].devices[j].mac # log[i].devices[k].mac

\* C22: every record returned has the name "Unknown", the signal strength
\* -99, paired FALSE and connected FALSE, and nothing but these and the
\* address, whatever the text holds.
C22_RecordDefaults ==
    \A i \in 1..Len(log) :
        \A k \in 1..Len(log[i].devices) :
            LET device == log[i].devices[k]
            IN  /\ DOMAIN device = {"mac", "name", "rssi", "paired", "connected"}
                /\ device.name = <<"U", "n", "k", "n", "o", "w", "n">>
                /\ device.rssi = -99
                /\ device.paired = FALSE
                /\ device.connected = FALSE

\* A labelled address line and a bare one were parsed into two records.
C22_Witness ==
    \E i \in 1..Len(log) :
        /\ IsSubstring(BD_ADDR, log[i].text)
        /\ Len(log[i].devices) = 2
        /\ log[i].devices[1].mac # log[i].devices[2].mac
        /\ log[i].devices[1].rssi = -99
        /\ ~log[i].devices[2].paired


(* ---- C23, C24: the dispatcher called directly ---- *)

\* Two logged calls of handle_command(command_data) were given the same
\* request and met the same store and the same environment.
SameDispatch(a, b) ==
    /\ a.fn = "handle_command" /\ b.fn = "handle_command"
    /\ a.extra = <<>> /\ b.extra = <<>>
    /\ a.request = b.request
    /\ a.before = b.before
    /\ a.env = b.env

InquiriesOf(e) == SelectSeq(e.calls, LAMBDA k : k.fn = "subprocess.run")

\* C24 as stated: handle_command called with a scan request and an adapter
\* name calls scan_devices with that name, and scan_devices called with an
\* adapter name runs the inquiry command exactly once, on that adapter.
C24_DevicePassed ==
    \A i \in 1..Len(log) :
        (log[i].extra # <<>> /\ ActionOf(log[i].request) = JStr(SCAN)) =>
            /\ log[i].raised = "none"
            /\ log[i].fn = "handle_command" =>
                   \E k \in 1..Len(log[i].calls) :
                       /\ log[i].calls[k].fn = "scan_devices"
                       /\ log[i].calls[k].arg = log[i].extra[1]
            /\ Len(InquiriesOf(log[i])) = 1
            /\ InquiriesOf(log[i])[1].arg = log[i].extra[1]

(* ---- C25: the adapter name the daemon runs with ---- *)

DIGITS == {"0", "1", "2", "3", "4", "5", "6", "7", "8", "9"}

\* 'ubt', one or more decimal digits, 'hci', and nothing else.
UbtNHci(name) ==
    /\ Len(name) >= 7
    /\ SubSeq(name, 1, 3) = <<"u", "b", "t">>
    /\ SubSeq(name, Len(name) - 2, Len(name)) = <<"h", "c", "i">>
    /\ \A i \in 4..(Len(name) - 3) : name[i] \in DIGITS

\* C25 as stated: the daemon validates the adapter name, so that it serves
\* only under a name of the form 'ubt', digits, 'hci'; every other name is
\* rejected.
C25_AdapterValidated == pc \in {"accept", "handle"} => UbtNHci(hci_device)


(* ---- C26, C27, C30: what one connection gets and causes ---- *)

\* C26: at most one response is written on a connection, it is the response
\* to the connection's own request and it is written before the close; a
\* closed connection is never touched again, and writes happen only in the
\* handler's one sendall.
C26_OneResponse ==
    /\ [](\A c \in DOMAIN conn :
            /\ Len(conn[c].wrote) <= 1
            /\ conn[c].wrote # <<>> =>
                   /\ conn[c].phase \in {"closing", "closed"}
                   /\ GotBytes(c)
                   /\ conn[c].wrote = <<conn[c].response>>
                   /\ WasDispatched(c) \/ conn[c].response = InvalidJson)
    /\ [][\A c \in DOMAIN conn \cap DOMAIN conn' :
            /\ conn[c].phase = "closed" => conn'[c] = conn[c]
            /\ conn'[c].wrote # conn[c].wrote => conn[c].phase = "send"]_vars

\* A response was written once, the write failed, and the connection was
\* closed with that one write.
C26_Witness ==
    \E c \in DOMAIN conn :
        /\ Closed(c)
        /\ conn[c].fault = "OSError"
        /\ conn[c].wrote = <<conn[c].response>>
        /\ conn[c].sent = <<>>

\* C27: within one request the inquiry command runs exactly once for a scan,
\* whatever its outcome, and not at all otherwise; the service restart runs
\* at most once, only right after update_hcsecd_conf returned True, and is
\* not repeated when it fails.
C27_NoRetry ==
    \A c \in DOMAIN conn :
        WasDispatched(c) =>
            LET inquiries == SelectSeq(conn[c].calls,
                                       LAMBDA k : k.fn = "subprocess.run")
                restarts == SelectSeq(conn[c].calls,
                                      LAMBDA k : k.fn = "restart_hcsecd_service")
            IN  /\ Len(inquiries) =
                       IF conn[c].request.t = "dict"
                          /\ ActionOf(conn[c].request) = JStr(SCAN)
                       THEN 1 ELSE 0
                /\ Len(restarts) <= 1
                /\ restarts # <<>> =>
                       /\ Len(conn[c].calls) = 3
                       /\ conn[c].calls[2].fn = "update_hcsecd_conf"
                       /\ conn[c].calls[2].ret = "True"
                       /\ conn[c].calls[3] = restarts[1]

\* A restart failed and was not tried again; the client got the warning.
C27_Witness ==
    \E c \in DOMAIN conn :
        /\ Closed(c)
        /\ Len(conn[c].calls) = 3
        /\ conn[c].calls[3] = Call("restart_hcsecd_service", <<>>, "False")
        /\ Len(conn[c].sent) = 1

\* C30: every response written has the status success, error or warning;
\* warning only answers a pair whose store update succeeded and whose service
\* restart failed, and only the responses to scan requests have a data field.
C30_ResponseShape ==
    \A c \in DOMAIN conn :
        \A k \in 1..Len(conn[c].wrote) :
            LET r == conn[c].wrote[k]
            IN  /\ r.status \in {"success", "error", "warning"}
                /\ r.status = "warning" =>
                       /\ ActionOf(conn[c].request) = JStr(PAIR)
                       /\ \E u \in 1..Len(conn[c].calls) :
                              /\ conn[c].calls[u].fn = "update_hcsecd_conf"
                              /\ conn[c].calls[u].ret = "True"
                       /\ \E u \in 1..Len(conn[c].calls) :
                              /\ conn[c].calls[u].fn = "restart_hcsecd_service"
                              /\ conn[c].calls[u].ret = "False"
                /\ "data" \in DOMAIN r => ActionOf(conn[c].request) = JStr(SCAN)

\* A warning was written: it has a message and no data.
C30_Witness ==
    \E c \in DOMAIN conn :
        /\ conn[c].wrote # <<>>
        /\ conn[c].wrote[1].status = "warning"
        /\ DOMAIN conn[c].wrote[1] = {"status", "message"}

(* ---- C29: the store over the run of the daemon ---- *)

\* The step answers a pair request for connection c by success or warning.
PairAccepted(c) ==
    /\ DispatchStep(c)
    /\ conn[c].request.t = "dict"
    /\ ActionOf(conn[c].request) = JStr(PAIR)
    /\ conn'[c].response.status \in {"success", "warning"}

\* The step refuses a pair request that carries an address.
PairRejected(c) ==
    /\ DispatchStep(c)
    /\ conn[c].request.t = "dict"
    /\ ActionOf(conn[c].request) = JStr(PAIR)
    /\ ~PairNoMac(conn[c].request)
    /\ conn'[c].response.status = "error"

C28_RejectedOnlyForOwnBlock ==
    \A i \in 1..Len(log) :
        (/\ log[i].mac.t = "str"
         /\ WellFormedAddress(log[i].mac.v)
         /\ log[i].io = "none"
         /\ ~log[i].ok) =>
            BlockCount(log[i].before.content, log[i].mac.v) >= 1


(* ---- C32: header lines and blank lines ---- *)

\* The lines of a text that are not blank and do not begin with the
\* inquiry-header phrase.
RecordCandidates(text) ==
    SelectSeq(SplitLines(text),
              LAMBDA line : ~HeaderLine(line) /\ Strip(line) # <<>>)

\* C32: a line that begins with 'Inquiry result' gives no record, five-colon
\* token or not, and a blank line gives none: there are no more records than
\* other lines, every address returned is a token of one of the other lines,
\* and a text of header and blank lines alone gives no record.
C32_HeaderAndBlankSkipped ==
    \A i \in 1..Len(log) :
        LET kept == RecordCandidates(log[i].text)
        IN  /\ Len(log[i].devices) <= Len(kept)
            /\ \A k \in 1..Len(log[i].devices) :
                 \E j \in 1..Len(kept) :
                     \E n \in 1..Len(SplitWords(kept[j])) :
                         SplitWords(kept[j])[n] = log[i].devices[k].mac

\* A header line with an address and then an address line were parsed: one
\* record, from the second line.
C32_Witness ==
    \E i \in 1..Len(log) :
        /\ log[i].text = INQUIRY_HEADER \o <<" ">> \o Mac0 \o <<"\n">> \o MacT
        /\ FiveColonTokens(INQUIRY_HEADER \o <<" ">> \o Mac0) # <<>>
        /\ MacsOf(log[i].devices) = <<MacT>>


(* ---- C31: pairing the same address again ---- *)

\* Logged call i was a pair request for an address, dispatched as the daemon
\* dispatches it.
PairCall(i) ==
    /\ log[i].fn = "handle_command"
    /\ log[i].extra = <<>>
    /\ ActionOf(log[i].request) = JStr(PAIR)
    /\ "mac" \in DOMAIN log[i].request.v

\* The service restarts logged call i made.
RestartsOf(i) ==
    SelectSeq(log[i].calls, LAMBDA k : k.fn = "restart_hcsecd_service")

\* C31: once a pair request for an address was answered with success or
\* warning, every later pair request for the same address is answered with
\* error and restarts the service no more; a warning is never followed by a
\* success for the same address.
C31_PairedStaysPaired ==
    \A i, j \in 1..Len(log) :
        ( /\ i < j
          /\ PairCall(i) /\ PairCall(j)
          /\ log[i].request.v.mac = log[j].request.v.mac
          /\ log[i].raised = "none"
          /\ log[i].response.status \in {"success", "warning"} ) =>
            /\ log[j].raised = "none"
            /\ log[j].response.status = "error"
            /\ RestartsOf(j) = <<>>

\* A pair request ended in warning (the store was updated, the restart
\* failed), and the same request, repeated with a restart that would succeed,
\* got the error.
C31_Witness ==
    \E i, j \in 1..Len(log) :
        /\ i < j
        /\ PairCall(i) /\ PairCall(j)
        /\ log[i].request.v.mac = JStr(MacA)
        /\ log[j].request.v.mac = JStr(MacA)
        /\ log[i].response.status = "warning"
        /\ log[j].env.reload = "exit0" /\ log[j].env.io = "none"
        /\ log[j].response.status = "error"


(* ---- C33: the one read of a connection ---- *)

\* The handler is past recv on connection c.
PastRecv(c) == conn[c].phase \in {"dispatch", "send", "closing", "closed"}

\* C33: on every connection the handler calls recv exactly once, for at most
\* 4096 bytes, and what it decodes and dispatches lies within the bytes that
\* call returned: a document that ends behind the buffer is not dispatched,
\* and the bytes behind the buffer stay unread.
C33_OneRead ==
    \A c \in DOMAIN conn :
        /\ ~PastRecv(c) => Len(conn[c].reads) = 0
        /\ PastRecv(c) =>
             LET message == conn[c].message
                 ends == message.lead + BodyLen(message.body)
             IN  /\ Len(conn[c].reads) = 1
                 /\ conn[c].reads[1].bufsize = 4096
                 /\ conn[c].reads[1].got <= 4096
                 /\ conn[c].reads[1].got <= Size(message)
                 /\ (conn[c].phase = "dispatch" \/ WasDispatched(c)) =>
                        /\ ends <= conn[c].reads[1].got
                        /\ conn[c].request = message.body.doc
                 /\ ends > 4096 => conn[c].data.doc = Malformed

\* A client wrote a scan request that ends one byte behind the buffer: the
\* handler read 4096 bytes once, answered "Invalid JSON format", ran no scan
\* and closed with the last byte unread.
C33_Witness ==
    \E c \in DOMAIN conn :
        /\ Closed(c)
        /\ conn[c].message.body.doc = JObj([action |-> JStr(SCAN)])
        /\ conn[c].message.lead + BodyLen(conn[c].message.body) = 4096 + 1
        /\ Size(conn[c].message) = 4096 + 1
        /\ conn[c].reads = <<Read(4096, 4096)>>
        /\ conn[c].sent = <<InvalidJson>>
        /\ conn[c].calls = <<>>


(* ---- C35, C36, C39: main() from its start to its end ---- *)

\* The adapter names the calls of a scan on connection c were given.
ScanAdapters(c) ==
    {conn[c].calls[k].arg :
        k \in {n \in 1..Len(conn[c].calls) :
                 conn[c].calls[n].fn \in {"scan_devices", "subprocess.run"}}}

\* C35: the adapter name is set by the first statements of main(), when no
\* connection has been accepted or even opened; from then on no step changes
\* it, whatever request is handled, and every scan runs on it.
C35_AdapterFixed ==
    /\ [](pc = "parse_args" => conn = <<>> /\ nconn = 0)
    /\ [](\A c \in DOMAIN conn : ScanAdapters(c) \subseteq {hci_device})
    /\ [][pc # "parse_args" => hci_device' = hci_device]_vars

\* The daemon was started with --device ubt1hci and has answered a scan it ran
\* on ubt1hci.
C35_Witness ==
    \E c \in DOMAIN conn :
        /\ Closed(c)
        /\ hci_device = <<"u", "b", "t", "1", "h", "c", "i">>
        /\ hci_device # DEFAULT_HCI_DEVICE
        /\ conn[c].request.t = "dict"
        /\ ActionOf(conn[c].request) = JStr(SCAN)
        /\ ScanAdapters(c) = {hci_device}
        /\ conn[c].sent # <<>>

\* C36: a process whose effective user is not root never creates, binds or
\* listens on the socket, never touches the socket file and never accepts a
\* connection: it ends in check_root, with exit status 1.
C36_RootChecked ==
    daemon.euid # 0 =>
        /\ pc \in {"parse_args", "check_root", "exited"}
        /\ daemon.server_socket = "none"
        /\ daemon.socket_file \in {"absent", "leftover"}
        /\ daemon.handlers = {}
        /\ conn = <<>>
        /\ pc = "exited" => daemon.exit_status = "1"

\* A user who is not root started the daemon, and it has exited.
C36_Witness ==
    /\ daemon.euid = 1001
    /\ pc = "exited"
    /\ daemon.exit_status = "1"
    /\ daemon.server_socket = "none"

\* C39: when the daemon has ended through SIGINT or SIGTERM, or through an
\* exception that left the try block of main(), the socket file does not
\* exist; and the socket is created and bound only when no socket file exists,
\* a file left over from a previous run having been removed.
C39_SocketFileRemoved ==
    /\ (pc = "exited" /\ daemon.ended_by \in {"SIGINT", "SIGTERM", "Exception"}) =>
           daemon.socket_file = "absent"
    /\ pc \in {"socket", "bind"} => daemon.socket_file = "absent"
    /\ daemon.server_socket \in {"bound", "listening"} =>
           daemon.socket_file = "bound"

\* SIGTERM arrived while the daemon was serving: the process has ended, the
\* server socket is closed and the socket file is gone.
C39_Witness ==
    /\ pc = "exited"
    /\ daemon.ended_by = "SIGTERM"
    /\ daemon.server_socket = "closed"
    /\ daemon.socket_file = "absent"
    /\ nconn > 0


(* ---- C34: every accepted connection is closed ---- *)

\* Connection c is in the hands of handle_client_connection.
Accepted(c) == c \in DOMAIN conn /\ conn[c].phase \in ActivePhases

\* C34: a connection that was accepted is closed in the end, whatever recv
\* returned and whatever the handler met, and it is closed once: by the
\* finally block, as the last step of the handler, and not again.
C34_EventuallyClosed ==
    /\ \A c \in 1..MaxConns :
           [](Accepted(c) => <>(c \in DOMAIN conn /\ conn[c].phase = "closed"))
    /\ [][\A c \in DOMAIN conn \cap DOMAIN conn' :
             /\ (conn[c].phase # "closed" /\ conn'[c].phase = "closed") =>
                    conn[c].phase = "closing"
             /\ conn[c].phase = "closed" => conn'[c] = conn[c]]_vars

\* A connection on which recv returned no bytes has been closed.
C34_Witness ==
    \E c \in DOMAIN conn :
        /\ conn[c].phase = "closed"
        /\ conn[c].reads # <<>>
        /\ conn[c].data.enc = "empty"
        /\ conn[c].wrote = <<>>


(* ---- C37, C38: the frontend ---- *)

\* Logged event i sent a command with send_command.
Sent(i) == log[i].command # JNull

\* The daemon could not be reached in event i: no socket file, no listener, or
\* no permission on the socket file.
Unreachable(i) ==
    \/ log[i].daemon.socket_file = "absent"
    \/ log[i].daemon.server_socket # "listening"
    \/ ~log[i].net.permitted

\* The connection of event i was closed without a whole response on it: the
\* daemon wrote none (the command was no JSON object), or not all of it came.
NothingDecodable(i) == log[i].command.t # "dict" \/ log[i].net.recv # "all"

\* C37: send_command raises nothing and returns an object whose status is
\* success, error or warning; it is error whenever the daemon could not be
\* reached or the connection ended without a decodable response.
C37_AlwaysAStatus ==
    \A i \in 1..Len(log) :
        Sent(i) =>
            /\ log[i].raised = "none"
            /\ "status" \in DOMAIN log[i].response
            /\ log[i].response.status \in {"success", "error", "warning"}
            /\ (Unreachable(i) \/ NothingDecodable(i)) =>
                   log[i].response.status = "error"

\* A scan found the socket file without a listener behind it, and a scan of
\* the serving daemon got a part of the response: both returned an error
\* object.
C37_Witness ==
    \E i, j \in 1..Len(log) :
        /\ Sent(i) /\ Sent(j)
        /\ log[i].net.permitted /\ log[i].net.recv = "part"
        /\ log[i].daemon = SERVING
        /\ log[i].response.status = "error"
        /\ ~log[j].net.permitted
        /\ log[j].response.status = "error"
        /\ log[j].raised = "none"

\* C38: a scan whose response is not a success leaves devices and
\* selected_device as they were; a scan whose response is a success makes
\* its data the device list; and nothing else a scan does changes the list.
C38_ScanFrame ==
    \A i \in 1..Len(log) :
        log[i].fn = "action_scan" =>
            /\ log[i].response.status # "success" =>
                   /\ log[i].after.devices = log[i].before.devices
                   /\ log[i].after.selected_device = log[i].before.selected_device
            /\ log[i].response.status = "success" =>
                   log[i].after.devices = log[i].response.data
            /\ log[i].after.selected_device = log[i].before.selected_device

\* Two devices were found and one was selected; the next scan failed in the
\* daemon (its response has status error and an empty data list): the two
\* devices and the selection are still there.
C38_Witness ==
    \E i \in 1..Len(log) :
        /\ log[i].fn = "action_scan"
        /\ Len(log[i].before.devices) = 2
        /\ log[i].before.selected_device = log[i].before.devices[2]
        /\ log[i].response.status = "error"
        /\ "data" \in DOMAIN log[i].response
        /\ log[i].after.devices = log[i].before.devices
        /\ log[i].after.selected_device = log[i].before.selected_device
====
